---- MODULE Spec2Model ----
(***************************************************************************)
(* A model of BitgetManager (src/Bitget_Spot_Orderbook.py; src/app.py is   *)
(* the same class without get_metrics and get_support_resistance): the    *)
(* order book kept in two dicts, the two traded-price strings, and the    *)
(* operations that load, patch, clear and read them.                      *)
(*                                                                         *)
(* Representation.                                                         *)
(*  - A Decimal is modelled by an integer (a whole number of units).       *)
(*  - A value received from the exchange is a string; D parses it as the  *)
(*    code does (Decimal(str(x)), 0 when the text is no decimal).         *)
(*  - A Python dict is a sequence of [p, q] records with distinct p, in   *)
(*    insertion order: sorted() is stable, so the order decides ties.     *)
(*  - A JSON array is a sequence of strings.                               *)
(*  - Python's None is the empty sequence for an optional value and -1    *)
(*    for an optional row index; row indices are 0-based as in the code.  *)
(*  - The star and the three price icons of build_dataframe are written   *)
(*    in ASCII: "*", "UP", "DOWN", "FLAT".                                 *)
(***************************************************************************)
EXTENDS Integers, Sequences, FiniteSets, TLC

\* ------------------------------------------------------------- bounds
\* Prices are 1 .. MaxPrice; the decimal texts the model parses are those
\* of -1 .. MaxPrice.
MaxPrice == 3
\* Most levels in one bootstrap response or one delta block (both sides
\* together), in the specification that records the arguments of a call.
MaxLevels == 2
\* Largest TOP_N / count asked of the read operations.
MaxTop == 2

\* ---------------------------------------------------- program constants
PRICE_DIGITS == 6
QTY_DIGITS == 4
VALUE_DIGITS == 2

None == -1
STAR == "*"

\* ------------------------------------------------------------ Decimal
\* The integers whose decimal text the model can receive or compute.
NumRange == (0 - 1) .. MaxPrice

\* The texts Decimal() accepts for n: "n" and "n.0" (equal as Decimals).
Spellings(n) == {ToString(n), ToString(n) \o ".0"}

\* Every text Decimal() accepts, with the number it makes of it.
DecimalTexts == UNION {Spellings(n) : n \in NumRange}
Parsed == [x \in DecimalTexts |-> CHOOSE n \in NumRange : x \in Spellings(n)]

\* Decimal(str(x)) succeeds.
IsDecimal(x) == x \in DecimalTexts

\* Decimal(str(x)), for a text it accepts.
DecimalOf(x) == Parsed[x]

\* D(x): Decimal(str(x)), and Decimal(0) when that raises.
D(x) == IF IsDecimal(x) THEN DecimalOf(x) ELSE 0

Abs(n) == IF n < 0 THEN 0 - n ELSE n

\* --------------------------------------------------------------- dict
Keys(d) == {d[i].p : i \in 1 .. Len(d)}

Has(d, p) == p \in Keys(d)

IndexOf(d, p) == CHOOSE i \in 1 .. Len(d) : d[i].p = p

\* d[p], for a key that is present.
Get(d, p) == d[IndexOf(d, p)].q

\* d[p] = q: a present key keeps its place, a new key goes last.
DictSet(d, p, q) ==
    IF Has(d, p)
    THEN [d EXCEPT ![IndexOf(d, p)] = [p |-> p, q |-> q]]
    ELSE Append(d, [p |-> p, q |-> q])

\* d.pop(p, None)
DictPop(d, p) ==
    IF Has(d, p)
    THEN LET i == IndexOf(d, p)
         IN  SubSeq(d, 1, i - 1) \o SubSeq(d, i + 1, Len(d))
    ELSE d

\* sum(d.values())
RECURSIVE SumQty(_)
SumQty(d) == IF d = << >> THEN 0 ELSE d[1].q + SumQty(Tail(d))

\* A total that counts the first level only.
SumValueHead(d) == IF d = << >> THEN 0 ELSE d[1].p * d[1].q

\* sum(p * q for p, q in d.items())
RECURSIVE SumValue(_)
SumValue(d) == IF d = << >> THEN 0 ELSE d[1].p * d[1].q + SumValue(Tail(d))

RECURSIVE MaxKey(_)
MaxKey(d) ==
    IF Len(d) = 1 THEN d[1].p
    ELSE LET m == MaxKey(Tail(d)) IN IF d[1].p > m THEN d[1].p ELSE m

RECURSIVE MinKey(_)
MinKey(d) ==
    IF Len(d) = 1 THEN d[1].p
    ELSE LET m == MinKey(Tail(d)) IN IF d[1].p < m THEN d[1].p ELSE m

\* -------------------------------------------------------------- state
VARIABLES
    bids,               \* self.bids: price -> quantity
    asks,               \* self.asks
    last_price_str,     \* self.last_price_str
    prev_price_str,     \* self.prev_price_str
    last_update_time,   \* self.last_update_time: which step set it last
    call,               \* the last operation called (and what it returned)
    running,            \* self.running
    stop_event,         \* self._stop.is_set()
    ws_app,             \* self._ws_app: the WebSocketApp it refers to
    apps,               \* the number of WebSocketApp objects made so far
    runs,               \* the number of runs start() has launched
    sup,                \* the _ws_runloop thread of each run
    symbol,             \* self.symbol
    top_n,              \* self.top_n
    latest_df,          \* self._latest_df
    lock,               \* self._lock: the thread that holds it
    main,               \* the calling thread, inside start/stop/restart
    launched,           \* the Thread(...).start() calls made, in order
    tick,               \* the _ticker_poll_loop thread of each run
    upd                 \* the _updater_loop thread of each run

vars == <<bids, asks, last_price_str, prev_price_str, last_update_time,
          call, running, stop_event, ws_app, apps, runs, sup,
          symbol, top_n, latest_df, lock, main, launched, tick, upd>>

book == <<bids, asks>>
ticker == <<last_price_str, prev_price_str>>
\* The settings, the published snapshot, the lock and the caller.
held == <<symbol, top_n, latest_df, lock, main>>
\* The ticker and updater threads and the record of the launches.
loops == <<launched, tick, upd>>
life == <<running, stop_event, ws_app, apps, runs, sup, held, loops>>

\* Most runs (calls of start() that launch the loops) of one behaviour.
MaxRuns == 2
\* Most runs of a behaviour in which the stream supervisors step freely.
LifeRuns == 1
\* Most consecutive times the stream may raise before it subscribes again.
MaxFails == 7
\* Most WebSocketApp objects made before the environment stops ending
\* run_forever by itself (an end under the stop signal is never held back).
MaxApps == 8
\* The same, where the loops of two runs step side by side.
RunsApps == 2

\* self._ws_app = None
NoApp == 0

\* Every WebSocketApp(...) makes a new object: the k-th one made is named
\* k, and no name is given twice.

\* A ratio the code computes by Decimal or float division is kept as
\* num / den.
Ratio(n, d) == [num |-> n, den |-> d]

\* No sleep in progress.
NoDelay == Ratio(0, 1)

\* A _ws_runloop thread that start() has not created: pc is its position,
\* backoff the local of that name, delay the argument of the sleep it is
\* in, app the WebSocketApp whose run_forever it is inside (NoApp outside
\* of it), conn the connection that call of run_forever has made ("none"
\* before it is open, then "open", and "closed" once close() has reached
\* it), sub the instId _on_open subscribed that connection to, msg the
\* message _on_message is handling (<< >> outside of it), fails the number
\* of times run_forever raised since the stream last subscribed.
NoThread ==
    [pc |-> "none", backoff |-> Ratio(1, 1), delay |-> NoDelay,
     app |-> NoApp, conn |-> "none", sub |-> "", msg |-> << >>, fails |-> 0]

\* self.top_n = 5
DEFAULT_TOP_N == 5

\* pd.DataFrame(): no rows and no attrs.
EmptyDf == [rows |-> << >>, current_price |-> "", price_icon |-> ""]

\* Who holds self._lock: the kind of thread and its run (the caller's
\* thread has run 0).
Holder(kind, r) == [kind |-> kind, run |-> r]
Free == Holder("none", 0)

\* The calling thread outside every call.  op is the method the user
\* called, pc the position in it or in a method it calls, symbol and top_n
\* the arguments of restart() (<< >> is None), sym the argument of
\* init_snapshot_and_price, requests the number of requests it has made,
\* ob and p what the two requests gave, noop the calls among start() and
\* stop() that returned at their first test, levels the number of levels
\* _clear_books() found in the book; TOP_N, top_asks, top_bids, cur_price,
\* prev_price and pprev are the locals of build_dataframe and df the
\* DataFrame it builds (its price_icon is the local icon until it is stored).
NoResponse == [kind |-> "none"]
Idle ==
    [op |-> "none", pc |-> "idle", symbol |-> << >>, top_n |-> << >>,
     sym |-> "", requests |-> 0, ob |-> NoResponse, p |-> << >>,
     noop |-> {}, levels |-> 0,
     TOP_N |-> 0, top_asks |-> << >>, top_bids |-> << >>,
     cur_price |-> "", prev_price |-> "", pprev |-> 0, df |-> EmptyDf]

\* A _ticker_poll_loop thread that start() has not created: pc is its
\* position, p the price of the response it holds (<< >> is None).
NoPoller == [pc |-> "none", p |-> << >>, sym |-> ""]

\* An _updater_loop thread that start() has not created: pc is its
\* position, TOP_N, top_asks, top_bids, cur_price, prev_price and pprev the
\* locals of build_dataframe, df the DataFrame it builds, last_snapshot
\* the local of that name (<< >> is None).  idle_loops only sets the
\* length of the sleep and is not kept.
NoUpdater ==
    [pc |-> "none", TOP_N |-> 0, top_asks |-> << >>, top_bids |-> << >>,
     cur_price |-> "", prev_price |-> "", pprev |-> 0, df |-> EmptyDf,
     last_snapshot |-> << >>]

\* The part of __init__ that sets the flags and the threads.
InitLife ==
    /\ running = FALSE
    /\ stop_event = FALSE
    /\ ws_app = NoApp
    /\ apps = 0
    /\ runs = 0
    /\ sup = [r \in 1 .. MaxRuns |-> NoThread]
    /\ symbol = "BTCUSDT"
    /\ top_n = DEFAULT_TOP_N
    /\ latest_df = EmptyDf
    /\ lock = Free
    /\ main = Idle
    /\ launched = << >>
    /\ tick = [r \in 1 .. MaxRuns |-> NoPoller]
    /\ upd = [r \in 1 .. MaxRuns |-> NoUpdater]

\* BitgetManager.__init__
Init ==
    /\ bids = << >>
    /\ asks = << >>
    /\ last_price_str = ""
    /\ prev_price_str = ""
    /\ last_update_time = "__init__"
    /\ call = [op |-> "__init__"]
    /\ InitLife

\* ---------------------------------------------------------- bootstrap
\* One pass of "for item in raw: if not item or len(item) < 2: continue;
\* side[D(item[0])] = D(item[1])" over a side that starts as d.
RECURSIVE LoadItems(_, _)
LoadItems(d, raw) ==
    IF raw = << >> THEN d
    ELSE LET item == Head(raw)
         IN  IF Len(item) < 2
             THEN LoadItems(d, Tail(raw))
             ELSE LoadItems(DictSet(d, D(item[1]), D(item[2])), Tail(raw))

\* A bootstrap that forgets to clear the side first.
SnapshotSideKeep(old, raw) == LoadItems(old, raw)

\* self.bids.clear(), then the loop over raw_bids (the same for asks).
SnapshotSide(old, raw) == LoadItems(<< >>, raw)

\* -------------------------------------------------------- ticker poll
\* One request of _ticker_poll_loop.  tk is <<str(p)>> for the p of
\* 'entry.get("lastPr") or entry.get("last") or entry.get("price")', and
\* << >> when p is None: the request failed, was no 200, had no list of
\* data, or the entry has none of the three keys.  The "or" chain gives
\* its last operand when all are falsy, so an entry whose "price" is the
\* empty text gives p = "", which is not None: tk = <<"">>, and the empty
\* text is stored as any other.  The strings are compared as texts.
ticker_poll(tk) ==
    /\ IF tk # << >> /\ tk[1] # last_price_str
       THEN /\ prev_price_str' = last_price_str
            /\ last_price_str' = tk[1]
       ELSE UNCHANGED ticker
    /\ UNCHANGED <<book, last_update_time>>

\* -------------------------------------------------------------- delta
\* A delta that keeps the first quantity it has for a price.
ApplyLevelFirstWins(d, it) ==
    IF Len(it) < 2 THEN d
    ELSE LET p == D(it[1])
             q == D(it[2])
         IN  IF Has(d, p) THEN d
             ELSE IF q = 0 THEN d ELSE DictSet(d, p, q)

\* A delta that stores the quantity 0 instead of removing the level.
ApplyLevelNoRemove(d, it) ==
    IF Len(it) < 2 THEN d
    ELSE DictSet(d, D(it[1]), D(it[2]))

\* The body of "for it in block.get(side, [])": it[0] or it[1] raising
\* IndexError is the "continue"; quantity 0 pops the price, any other
\* quantity is stored.
ApplyLevel(d, it) ==
    IF Len(it) < 2 THEN d
    ELSE LET p == D(it[1])
             q == D(it[2])
         IN  IF q = 0 THEN DictPop(d, p) ELSE DictSet(d, p, q)

RECURSIVE ApplyLevels(_, _)
ApplyLevels(d, its) ==
    IF its = << >> THEN d
    ELSE ApplyLevels(ApplyLevel(d, Head(its)), Tail(its))

\* A delta that replaces the side by the levels of the block.
ApplySideReplace(d, block, side) ==
    IF ~block.dict THEN d
    ELSE ApplyLevels(<< >>, block[side])

\* One block of apply_books on one side; a block that is no dict is skipped.
ApplySide(d, block, side) ==
    IF ~block.dict THEN d
    ELSE ApplyLevels(d, block[side])

RECURSIVE ApplyBlocks(_, _, _)
ApplyBlocks(d, blocks, side) ==
    IF blocks = << >> THEN d
    ELSE ApplyBlocks(ApplySide(d, Head(blocks), side), Tail(blocks), side)

\* apply_books(blocks)
apply_books(blocks) ==
    /\ bids' = ApplyBlocks(bids, blocks, "bids")
    /\ asks' = ApplyBlocks(asks, blocks, "asks")
    /\ last_update_time' = "apply_books"
    /\ UNCHANGED ticker

\* ------------------------------------------------------ stream message
\* A stream message as _on_message sees it: json (json.loads succeeds),
\* control (it carries "event" or "code"), channel (arg.channel), has_data
\* (data is not None) and data, the list of its blocks.  A block of trades
\* is a dict with the key "price".
Message(channel, data) ==
    [json |-> TRUE, control |-> FALSE, channel |-> channel,
     has_data |-> TRUE, data |-> data]
NoJson ==
    [json |-> FALSE, control |-> FALSE, channel |-> "",
     has_data |-> FALSE, data |-> << >>]
Control ==
    [json |-> TRUE, control |-> TRUE, channel |-> "books",
     has_data |-> FALSE, data |-> << >>]
NoData ==
    [json |-> TRUE, control |-> FALSE, channel |-> "books",
     has_data |-> FALSE, data |-> << >>]
Trade(p) == [dict |-> TRUE, bids |-> << >>, asks |-> << >>, price |-> p]

\* A block that carries levels and the key "price".
TradedBlock(b, a, p) == [dict |-> TRUE, bids |-> b, asks |-> a, price |-> p]

\* isinstance(b, dict) and (b.get("bids") or b.get("asks"))
BookShaped(b) == b.dict /\ (b.bids # << >> \/ b.asks # << >>)

\* isinstance(b, dict) and any(k in b for k in ("p", "price", "last"))
TradeShaped(b) == b.dict /\ "price" \in DOMAIN b

\* "trade" in channel, over the channel names of the model.
TradeChannel(channel) == channel \in {"trade", "trades"}

\* The second test of _on_message: it calls self.apply_trades, which the
\* class does not define (the method is commented out), so the call
\* raises AttributeError and sets no price.
CallsApplyTrades(msg) ==
    (\E i \in 1 .. Len(msg.data) : TradeShaped(msg.data[i]))
        \/ TradeChannel(msg.channel)

\* A data message gets past the three early returns.
IsDataMessage(msg) == msg.json /\ ~msg.control /\ msg.has_data

\* any(isinstance(b, dict) and (b.get("bids") or b.get("asks")) for b in
\* blocks), of a data message
HasBooks(msg) ==
    IsDataMessage(msg) /\ \E i \in 1 .. Len(msg.data) : BookShaped(msg.data[i])

\* The handling of msg ends in the AttributeError of apply_trades.
Raises(msg) == IsDataMessage(msg) /\ CallsApplyTrades(msg)

\* _on_message(ws, raw), from its first statement to its last
on_message(msg) ==
    IF HasBooks(msg)
    THEN apply_books(msg.data)
    ELSE UNCHANGED <<book, ticker, last_update_time>>

\* A _clear_books() that resets the prices with the book.
clear_books_and_prices ==
    /\ bids' = << >>
    /\ asks' = << >>
    /\ last_price_str' = ""
    /\ prev_price_str' = ""
    /\ UNCHANGED last_update_time

\* _clear_books()
clear_books ==
    /\ bids' = << >>
    /\ asks' = << >>
    /\ UNCHANGED <<ticker, last_update_time>>

\* --------------------------------------------------- stream supervisor
\* _ws_runloop of run r, one step at a time.  pc is the position:
\*   "while"        at the test of "while not self._stop.is_set()"
\*   "create"       in the try block, before WebSocketApp(...)
\*   "run_forever"  the app is made and assigned; at
\*                  self._ws_app.run_forever(...)
\*   "connecting"   inside run_forever of the app self._ws_app referred
\*                  to when the call was made; no connection yet
\*   "on_open"      the connection is open; at _on_open
\*   "connected"    inside run_forever, between two callbacks
\*   "apply_books"  in _on_message, in apply_books at "with self._lock:"
\*   "books_locked" in the block of apply_books, the lock held
\*   "except"       run_forever raised; at "if self._stop.is_set(): break"
\*   "sleep_backoff" in time.sleep(backoff)
\*   "else"         run_forever returned; at "if self._stop.is_set(): break"
\*   "sleep_pause"  in time.sleep(0.5)
\*   "exited"       the loop is left
\* websocket-client is not part of the repository: whether run_forever
\* connects, raises or returns, and what it delivers, is the environment's
\* choice.
BACKOFF_CAP == 10
BACKOFF_FACTOR == Ratio(3, 2)
PAUSE == Ratio(1, 2)

\* min(10, backoff * 1.5)
NextBackoff(b) ==
    LET n == b.num * BACKOFF_FACTOR.num
        d == b.den * BACKOFF_FACTOR.den
    IN  IF BACKOFF_CAP * d <= n THEN Ratio(BACKOFF_CAP, 1) ELSE Ratio(n, d)

\* The thread start() creates: "backoff = 1.0" and the first test.
NewThread == [NoThread EXCEPT !.pc = "while"]

At(r, pcs) == sup[r].pc \in pcs

\* The steps of a loop thread change nothing but that thread (and what is
\* named beside).
OnlyThread == UNCHANGED <<book, ticker, last_update_time, call, running,
                          stop_event, runs, held, loops>>

\* while not self._stop.is_set():
ws_while(r) ==
    /\ At(r, {"while"})
    /\ sup' = [sup EXCEPT ![r].pc = IF stop_event THEN "exited" ELSE "create"]
    /\ UNCHANGED <<ws_app, apps>>
    /\ OnlyThread

\* self._ws_app = WebSocketApp(...): a new object, which the attribute
\* refers to from now on
ws_create(r) ==
    /\ At(r, {"create"})
    /\ apps' = apps + 1
    /\ ws_app' = apps + 1
    /\ sup' = [sup EXCEPT ![r].pc = "run_forever"]
    /\ OnlyThread

\* self._ws_app.run_forever(...): the attribute is read again, and
\* run_forever of the app it refers to now is entered (the app this
\* supervisor made, or one another supervisor has assigned since)
ws_run_forever(r) ==
    /\ At(r, {"run_forever"})
    /\ sup' = [sup EXCEPT ![r].pc = "connecting", ![r].app = ws_app]
    /\ UNCHANGED <<ws_app, apps>>
    /\ OnlyThread

\* run_forever opens its connection and is about to call _on_open.
ws_open(r) ==
    /\ At(r, {"connecting"})
    /\ sup' = [sup EXCEPT ![r].pc = "on_open", ![r].conn = "open"]
    /\ UNCHANGED <<ws_app, apps>>
    /\ OnlyThread

\* _on_open: ws.send(json.dumps(sub)) with "instId": self.symbol as it is
\* now; on a connection closed since it was opened send raises, which the
\* except clause prints.
ws_on_open(r) ==
    /\ At(r, {"on_open"})
    /\ sup' = IF sup[r].conn = "open"
              THEN [sup EXCEPT ![r].pc = "connected", ![r].sub = symbol,
                               ![r].fails = 0]
              ELSE [sup EXCEPT ![r].pc = "connected"]
    /\ UNCHANGED <<ws_app, apps>>
    /\ OnlyThread

\* run_forever of supervisor r may end: at any time once close() has
\* reached its connection or while the stop signal is set (the loop then
\* makes no further app, unless a start() clears the signal first), and
\* otherwise while fewer than cap apps have been made so far.
MayEnd(r, cap) == sup[r].conn = "closed" \/ stop_event \/ apps < cap

\* The supervisor has left run_forever: its connection is gone.
Left(t) == [t EXCEPT !.app = NoApp, !.conn = "none", !.sub = ""]

\* run_forever raises, before or after it connected.
ws_raise(r) ==
    /\ At(r, {"connecting", "connected"})
    /\ sup[r].fails < MaxFails
    /\ MayEnd(r, MaxApps)
    /\ sup' = [sup EXCEPT ![r] = [Left(@) EXCEPT !.pc = "except",
                                                 !.fails = @ + 1]]
    /\ UNCHANGED <<ws_app, apps>>
    /\ OnlyThread

\* run_forever returns: the connection was closed by the server, by
\* stop(), or never made.
ws_return(r) ==
    /\ At(r, {"connecting", "connected"})
    /\ MayEnd(r, MaxApps)
    /\ sup' = [sup EXCEPT ![r] = [Left(@) EXCEPT !.pc = "else"]]
    /\ UNCHANGED <<ws_app, apps>>
    /\ OnlyThread

\* except: if self._stop.is_set(): break; ...; time.sleep(backoff)
ws_except(r) ==
    /\ At(r, {"except"})
    /\ sup' = IF stop_event
              THEN [sup EXCEPT ![r].pc = "exited"]
              ELSE [sup EXCEPT ![r].pc = "sleep_backoff",
                               ![r].delay = sup[r].backoff]
    /\ UNCHANGED <<ws_app, apps>>
    /\ OnlyThread

\* the sleep ends; backoff = min(10, backoff * 1.5)
ws_backoff(r) ==
    /\ At(r, {"sleep_backoff"})
    /\ sup' = [sup EXCEPT ![r].pc = "while", ![r].delay = NoDelay,
                          ![r].backoff = NextBackoff(@)]
    /\ UNCHANGED <<ws_app, apps>>
    /\ OnlyThread

\* An else branch that grows the backoff as the except branch does.
ws_else_grows(r) ==
    /\ At(r, {"else"})
    /\ sup' = IF stop_event
              THEN [sup EXCEPT ![r].pc = "exited"]
              ELSE [sup EXCEPT ![r].pc = "sleep_pause", ![r].delay = PAUSE,
                               ![r].backoff = NextBackoff(@)]
    /\ UNCHANGED <<ws_app, apps>>
    /\ OnlyThread

\* else: if self._stop.is_set(): break; time.sleep(0.5)
ws_else(r) ==
    /\ At(r, {"else"})
    /\ sup' = IF stop_event
              THEN [sup EXCEPT ![r].pc = "exited"]
              ELSE [sup EXCEPT ![r].pc = "sleep_pause", ![r].delay = PAUSE]
    /\ UNCHANGED <<ws_app, apps>>
    /\ OnlyThread

\* the sleep of 0.5 ends
ws_pause(r) ==
    /\ At(r, {"sleep_pause"})
    /\ sup' = [sup EXCEPT ![r].pc = "while", ![r].delay = NoDelay]
    /\ UNCHANGED <<ws_app, apps>>
    /\ OnlyThread

\* run_forever hands a message of the open connection to _on_message, in
\* the supervisor's thread.  _on_message runs on its locals as far as the
\* first statement that needs the shared state: of a message with levels
\* that is "with self._lock:" of apply_books; any other message is done
\* with (it returns early, or its call of apply_trades raises, which the
\* library's callback wrapper catches).
ws_on_message(r, msg) ==
    /\ At(r, {"connected"})
    /\ sup[r].conn = "open"
    /\ sup' = IF HasBooks(msg)
              THEN [sup EXCEPT ![r].pc = "apply_books", ![r].msg = <<msg>>]
              ELSE sup
    /\ UNCHANGED <<book, ticker, last_update_time, running, stop_event,
                   ws_app, apps, runs, held, loops>>

\* The same, beside a caller whose record of the last call stays.
ws_message(r, msg) ==
    /\ ws_on_message(r, msg)
    /\ UNCHANGED call

\* apply_books: with self._lock: (entered), whenever the lock is free,
\* whatever stop() or restart() have done since the message was handed over
ws_apply_books_with(r) ==
    /\ At(r, {"apply_books"})
    /\ lock = Free
    /\ lock' = Holder("ws", r)
    /\ sup' = [sup EXCEPT ![r].pc = "books_locked"]
    /\ UNCHANGED <<book, ticker, last_update_time, call, running, stop_event,
                   ws_app, apps, runs, symbol, top_n, latest_df, main, loops>>

\* The two loops of every block and self.last_update_time = time.time();
\* the lock released; then the second test of _on_message, whose call of
\* apply_trades raises in the callback, and run_forever goes on.
ws_apply_books_locked(r) ==
    /\ At(r, {"books_locked"})
    /\ apply_books(sup[r].msg[1].data)
    /\ lock' = Free
    /\ sup' = [sup EXCEPT ![r].pc = "connected", ![r].msg = << >>]
    /\ UNCHANGED <<call, running, stop_event, ws_app, apps, runs, symbol,
                   top_n, latest_df, main, loops>>

\* ---------------------------------------------------------- start, stop
\* The threads start() creates after the stream supervisor: each at the
\* first test of its loop ("last_snapshot = None" in the updater).
NewPoller == [NoPoller EXCEPT !.pc = "while"]
NewUpdater == [NoUpdater EXCEPT !.pc = "while"]

\* threading.Thread(target=..., daemon=True).start() of run r
Launch(loop, r) == [loop |-> loop, run |-> r]

\* The supervisors inside run_forever of app a whose connection is open.
OpenOn(a) ==
    {r \in 1 .. MaxRuns : a # NoApp /\ sup[r].app = a /\ sup[r].conn = "open"}

\* close() has reached the connections of the supervisors R.
CloseApp(s, R) ==
    [r \in 1 .. MaxRuns |->
        IF r \in R THEN [s[r] EXCEPT !.conn = "closed"] ELSE s[r]]

\* ------------------------------- start, stop, restart: one statement a step
\* The caller's thread inside the call the user made.  pc is the position:
\*   "start"              at "if self.running: return"
\*   "start_clear"        at self._stop.clear()
\*   "boot_get_book"      in session.get(REST_ORDERBOOK_URL, ...)
\*   "boot_with_book"     the response decoded; at "with self._lock:"
\*   "boot_book_locked"   in the block, the lock held
\*   "boot_get_ticker"    in session.get(REST_TICKER_URL, ...)
\*   "boot_with_ticker"   p is not None; at "with self._lock:"
\*   "boot_ticker_locked" in the block, the lock held; at
\*                        self.prev_price_str = self.last_price_str
\*   "boot_set_last"      the lock held; at self.last_price_str = str(p)
\*   "launch_ws", "launch_ticker", "launch_updater"
\*                        at the Thread(...) of that loop
\*   "set_running"        at self.running = True
\*   "stop"               at "if not self.running: return"
\*   "stop_set"           at self._stop.set()
\*   "stop_close"         at "if self._ws_app: self._ws_app.close()"
\*   "stop_join"          in the three join(timeout=1)
\*   "stop_running"       at self.running = False
\*   "restart_symbol"     stop() has returned; at "if symbol:"
\*   "restart_top_n"      at "if top_n:"
\*   "clear"              at "with self._lock:" of _clear_books()
\*   "clear_locked"       in the block, the lock held
\*   "restart_sleep"      in time.sleep(0.1)
\*   "build"              at "with self._lock:" of build_dataframe
\*   "build_locked"       in the block, the lock held
\*   "build_rows"         the lock released; at the nearest rows
\*   "build_test_last"    prev_price_str was set; at the read of
\*                        self.last_price_str in the test of line 497
\*   "build_test_prev"    both were set; at the second read of
\*                        self.prev_price_str in that test
\*   "build_pprev"        at pprev = Decimal(str(self.prev_price_str))
\*   "build_pcur"         at pcur = Decimal(str(self.last_price_str))
\*   "build_attrs"        at df.attrs["current_price"] = ..., of the try
\*                        block or of its except clause
\*   "idle"               the call has returned to the user
Me == Holder("main", 0)

\* What the finished call leaves in call.
CallOf(m) ==
    [op |-> m.op, symbol |-> m.symbol, top_n |-> m.top_n, sym |-> m.sym,
     requests |-> m.requests, ob |-> m.ob, p |-> m.p, noop |-> m.noop,
     levels |-> m.levels, TOP_N |-> m.TOP_N, top_asks |-> m.top_asks,
     top_bids |-> m.top_bids, cur_price |-> m.cur_price, df |-> m.df]

\* The caller goes on at pc with the locals m; at "idle" it has returned.
Goto(m, pc) ==
    /\ main' = IF pc = "idle" THEN Idle ELSE [m EXCEPT !.pc = pc]
    /\ call' = IF pc = "idle" THEN CallOf(m) ELSE call

\* Where stop(), _clear_books() and init_snapshot_and_price() return to.
AfterStop == IF main.op = "restart" THEN "restart_symbol" ELSE "idle"
AfterClear == IF main.op = "restart" THEN "restart_sleep" ELSE "idle"
AfterBoot == IF main.op = "init_snapshot_and_price" THEN "idle" ELSE "launch_ws"

\* "if symbol:" and "if top_n:": None, "" and 0 are false.
TruthyText(arg) == arg # << >> /\ arg[1] # ""
TruthyNumber(arg) == arg # << >> /\ arg[1] # 0

\* The user calls start(), stop(), restart(symbol, top_n), _clear_books().
Enter(op, pc, sym, n) ==
    /\ main.pc = "idle"
    /\ main' = [Idle EXCEPT !.op = op, !.pc = pc, !.symbol = sym, !.top_n = n]
    /\ UNCHANGED <<book, ticker, last_update_time, call, running, stop_event,
                   ws_app, apps, runs, sup, symbol, top_n, latest_df, lock, loops>>

\* The user calls init_snapshot_and_price(self.symbol) or
\* build_dataframe(n) by itself.  call forgets the call before and keeps
\* the record c until this one returns.
Direct(op, pc, n, c) ==
    /\ main.pc = "idle"
    /\ main' = [Idle EXCEPT !.op = op, !.pc = pc, !.sym = symbol, !.TOP_N = n]
    /\ call' = c
    /\ UNCHANGED <<book, ticker, last_update_time, running, stop_event,
                   ws_app, apps, runs, sup, symbol, top_n, latest_df, lock, loops>>

\* if self.running: return
start_test ==
    /\ main.pc = "start"
    /\ IF running
       THEN Goto([main EXCEPT !.noop = @ \cup {"start"}], "idle")
       ELSE Goto(main, "start_clear")
    /\ UNCHANGED <<book, ticker, last_update_time, running, stop_event,
                   ws_app, apps, runs, sup, symbol, top_n, latest_df, lock, loops>>

\* A start() that sets self.running before it has launched the loops.
start_clear_running ==
    /\ main.pc = "start_clear"
    /\ stop_event' = FALSE
    /\ running' = TRUE
    /\ Goto([main EXCEPT !.sym = symbol], "boot_get_book")
    /\ UNCHANGED <<book, ticker, last_update_time, ws_app, apps, runs,
                   sup, symbol, top_n, latest_df, lock, loops>>

\* self._stop.clear(); the call init_snapshot_and_price(self.symbol)
start_clear ==
    /\ main.pc = "start_clear"
    /\ stop_event' = FALSE
    /\ Goto([main EXCEPT !.sym = symbol], "boot_get_book")
    /\ UNCHANGED <<book, ticker, last_update_time, running, ws_app, apps, runs,
                   sup, symbol, top_n, latest_df, lock, loops>>

\* r = session.get(REST_ORDERBOOK_URL, ...) up to raw_asks: the response
\* ob arrives.  Its kind is "raise" (the request or its decoding raised:
\* the except clause is next, the lock block is not entered), "non200"
\* (js = {}, so both lists are empty) or "200" with the lists bids and
\* asks.
boot_get_book(ob) ==
    /\ main.pc = "boot_get_book"
    /\ Goto([main EXCEPT !.ob = ob, !.requests = 1],
            IF ob.kind = "raise" THEN "boot_get_ticker" ELSE "boot_with_book")
    /\ UNCHANGED <<book, ticker, last_update_time, running, stop_event,
                   ws_app, apps, runs, sup, symbol, top_n, latest_df, lock, loops>>

\* with self._lock: (entered)
boot_with_book ==
    /\ main.pc = "boot_with_book"
    /\ lock = Free
    /\ lock' = Me
    /\ Goto(main, "boot_book_locked")
    /\ UNCHANGED <<book, ticker, last_update_time, running, stop_event,
                   ws_app, apps, runs, sup, symbol, top_n, latest_df, loops>>

\* self.bids.clear(); self.asks.clear(); the two loops; the lock released
boot_book_locked ==
    /\ main.pc = "boot_book_locked"
    /\ LET raw_bids == IF main.ob.kind = "200" THEN main.ob.bids ELSE << >>
           raw_asks == IF main.ob.kind = "200" THEN main.ob.asks ELSE << >>
       IN  /\ bids' = SnapshotSide(bids, raw_bids)
           /\ asks' = SnapshotSide(asks, raw_asks)
    /\ lock' = Free
    /\ Goto(main, "boot_get_ticker")
    /\ UNCHANGED <<ticker, last_update_time, running, stop_event,
                   ws_app, apps, runs, sup, symbol, top_n, latest_df, loops>>

\* r = session.get(REST_TICKER_URL, ...) up to "if p is not None": tk is
\* <<str(p)>>, << >> when the request failed or p is None (<<"">> for an
\* entry whose "price" is the empty text, the last operand of the chain).
boot_get_ticker(tk) ==
    /\ main.pc = "boot_get_ticker"
    /\ Goto([main EXCEPT !.p = tk, !.requests = 2],
            IF tk = << >> THEN AfterBoot ELSE "boot_with_ticker")
    /\ UNCHANGED <<book, ticker, last_update_time, running, stop_event,
                   ws_app, apps, runs, sup, symbol, top_n, latest_df, lock, loops>>

\* with self._lock: (entered)
boot_with_ticker ==
    /\ main.pc = "boot_with_ticker"
    /\ lock = Free
    /\ lock' = Me
    /\ Goto(main, "boot_ticker_locked")
    /\ UNCHANGED <<book, ticker, last_update_time, running, stop_event,
                   ws_app, apps, runs, sup, symbol, top_n, latest_df, loops>>

\* self.prev_price_str = self.last_price_str
boot_ticker_locked ==
    /\ main.pc = "boot_ticker_locked"
    /\ prev_price_str' = last_price_str
    /\ Goto(main, "boot_set_last")
    /\ UNCHANGED <<book, last_price_str, last_update_time, running, stop_event,
                   ws_app, apps, runs, sup, symbol, top_n, latest_df, lock,
                   loops>>

\* self.last_price_str = str(p); the lock released
boot_set_last ==
    /\ main.pc = "boot_set_last"
    /\ last_price_str' = main.p[1]
    /\ lock' = Free
    /\ Goto(main, AfterBoot)
    /\ UNCHANGED <<book, prev_price_str, last_update_time, running, stop_event,
                   ws_app, apps, runs, sup, symbol, top_n, latest_df, loops>>

\* self._ws_thread = threading.Thread(target=self._ws_runloop, ...); start()
launch_ws ==
    /\ main.pc = "launch_ws"
    /\ runs' = runs + 1
    /\ sup' = [sup EXCEPT ![runs + 1] = NewThread]
    /\ launched' = Append(launched, Launch("ws", runs + 1))
    /\ Goto(main, "launch_ticker")
    /\ UNCHANGED <<book, ticker, last_update_time, running, stop_event,
                   ws_app, apps, symbol, top_n, latest_df, lock, tick, upd>>

\* self._ticker_thread = threading.Thread(...); start()
launch_ticker ==
    /\ main.pc = "launch_ticker"
    /\ tick' = [tick EXCEPT ![runs] = NewPoller]
    /\ launched' = Append(launched, Launch("ticker", runs))
    /\ Goto(main, "launch_updater")
    /\ UNCHANGED <<book, ticker, last_update_time, running, stop_event,
                   ws_app, apps, runs, sup, symbol, top_n, latest_df, lock, upd>>

\* self._updater_thread = threading.Thread(...); start()
launch_updater ==
    /\ main.pc = "launch_updater"
    /\ upd' = [upd EXCEPT ![runs] = NewUpdater]
    /\ launched' = Append(launched, Launch("updater", runs))
    /\ Goto(main, "set_running")
    /\ UNCHANGED <<book, ticker, last_update_time, running, stop_event,
                   ws_app, apps, runs, sup, symbol, top_n, latest_df, lock, tick>>

\* self.running = True
set_running ==
    /\ main.pc = "set_running"
    /\ running' = TRUE
    /\ Goto(main, "idle")
    /\ UNCHANGED <<book, ticker, last_update_time, stop_event,
                   ws_app, apps, runs, sup, symbol, top_n, latest_df, lock, loops>>

\* A stop() without the test of self.running.
stop_test_unguarded ==
    /\ main.pc = "stop"
    /\ Goto(main, "stop_set")
    /\ UNCHANGED <<book, ticker, last_update_time, running, stop_event,
                   ws_app, apps, runs, sup, symbol, top_n, latest_df, lock, loops>>

\* if not self.running: return
stop_test ==
    /\ main.pc = "stop"
    /\ IF ~running
       THEN Goto([main EXCEPT !.noop = @ \cup {"stop"}], AfterStop)
       ELSE Goto(main, "stop_set")
    /\ UNCHANGED <<book, ticker, last_update_time, running, stop_event,
                   ws_app, apps, runs, sup, symbol, top_n, latest_df, lock, loops>>

\* self._stop.set()
stop_set ==
    /\ main.pc = "stop_set"
    /\ stop_event' = TRUE
    /\ Goto(main, "stop_close")
    /\ UNCHANGED <<book, ticker, last_update_time, running, ws_app, apps, runs,
                   sup, symbol, top_n, latest_df, lock, loops>>

\* if self._ws_app: self._ws_app.close(): the open connection of the app
\* self._ws_app refers to now is closed; an app that is None, or that no
\* run_forever has connected, is left as it is.  With two supervisors
\* inside run_forever of that one object, which of their connections
\* close() reaches (one at least) is the library's choice.
stop_close ==
    /\ main.pc = "stop_close"
    /\ \E R \in SUBSET OpenOn(ws_app) :
          /\ OpenOn(ws_app) # {} => R # {}
          /\ sup' = CloseApp(sup, R)
    /\ Goto(main, "stop_join")
    /\ UNCHANGED <<book, ticker, last_update_time, running, stop_event,
                   ws_app, apps, runs, symbol, top_n, latest_df, lock, loops>>

\* The three join(timeout=1): each returns when its thread has exited or
\* after a second, whichever is first.
stop_join ==
    /\ main.pc = "stop_join"
    /\ Goto(main, "stop_running")
    /\ UNCHANGED <<book, ticker, last_update_time, running, stop_event,
                   ws_app, apps, runs, sup, symbol, top_n, latest_df, lock, loops>>

\* self.running = False
stop_running ==
    /\ main.pc = "stop_running"
    /\ running' = FALSE
    /\ Goto(main, AfterStop)
    /\ UNCHANGED <<book, ticker, last_update_time, stop_event,
                   ws_app, apps, runs, sup, symbol, top_n, latest_df, lock, loops>>

\* A restart() that stores whatever symbol it is given.
restart_symbol_unguarded ==
    /\ main.pc = "restart_symbol"
    /\ symbol' = IF main.symbol # << >> THEN main.symbol[1] ELSE symbol
    /\ Goto(main, "restart_top_n")
    /\ UNCHANGED <<book, ticker, last_update_time, running, stop_event,
                   ws_app, apps, runs, sup, top_n, latest_df, lock, loops>>

\* if symbol: self.symbol = symbol
restart_symbol ==
    /\ main.pc = "restart_symbol"
    /\ symbol' = IF TruthyText(main.symbol) THEN main.symbol[1] ELSE symbol
    /\ Goto(main, "restart_top_n")
    /\ UNCHANGED <<book, ticker, last_update_time, running, stop_event,
                   ws_app, apps, runs, sup, top_n, latest_df, lock, loops>>

\* if top_n: self.top_n = top_n
restart_top_n ==
    /\ main.pc = "restart_top_n"
    /\ top_n' = IF TruthyNumber(main.top_n) THEN main.top_n[1] ELSE top_n
    /\ Goto(main, "clear")
    /\ UNCHANGED <<book, ticker, last_update_time, running, stop_event,
                   ws_app, apps, runs, sup, symbol, latest_df, lock, loops>>

\* _clear_books(): with self._lock: (entered)
clear_with ==
    /\ main.pc = "clear"
    /\ lock = Free
    /\ lock' = Me
    /\ Goto([main EXCEPT !.levels = Len(bids) + Len(asks)], "clear_locked")
    /\ UNCHANGED <<book, ticker, last_update_time, running, stop_event,
                   ws_app, apps, runs, sup, symbol, top_n, latest_df, loops>>

\* self.bids.clear(); self.asks.clear(); the lock released
clear_locked ==
    /\ main.pc = "clear_locked"
    /\ clear_books
    /\ lock' = Free
    /\ Goto(main, AfterClear)
    /\ UNCHANGED <<running, stop_event, ws_app, apps, runs, sup, symbol, top_n,
                   latest_df, loops>>

\* time.sleep(0.1); self.start()
restart_sleep ==
    /\ main.pc = "restart_sleep"
    /\ Goto(main, "start")
    /\ UNCHANGED <<book, ticker, last_update_time, running, stop_event,
                   ws_app, apps, runs, sup, symbol, top_n, latest_df, lock, loops>>

\* ------------------------------------------------------------ metrics
\* The "imbalance" of get_metrics: 0.5 unless the total volume is > 0.
Imbalance(b, a) ==
    LET total_buy_vol == SumQty(b)
        total_sell_vol == SumQty(a)
    IN  IF total_buy_vol + total_sell_vol > 0
        THEN Ratio(total_buy_vol, total_buy_vol + total_sell_vol)
        ELSE Ratio(1, 2)

\* What get_metrics returns (its "latency", a wall-clock age, is left out).
Metrics(b, a) ==
    LET best_bid == IF b # << >> THEN MaxKey(b) ELSE 0
        best_ask == IF a # << >> THEN MinKey(a) ELSE 0
        both == best_bid > 0 /\ best_ask > 0
    IN  [best_bid |-> best_bid,
         best_ask |-> best_ask,
         spread |-> IF both THEN best_ask - best_bid ELSE 0,
         spread_pct |-> IF both THEN Ratio((best_ask - best_bid) * 100, best_ask)
                        ELSE Ratio(0, 1),
         imbalance |-> Imbalance(b, a)]

\* get_metrics()
get_metrics ==
    /\ call' = [op |-> "get_metrics", result |-> Metrics(bids, asks)]
    /\ UNCHANGED <<book, ticker, last_update_time>>

\* get_total_values()
get_total_values ==
    /\ call' = [op |-> "get_total_values",
                result |-> <<SumValue(bids), SumValue(asks)>>]
    /\ UNCHANGED <<book, ticker, last_update_time>>

\* ---------------------------------------------------------- selection
\* The number of levels of s whose quantity is >= q (s is sorted, so
\* they are its first ones).
RECURSIVE CountAtLeast(_, _)
CountAtLeast(s, q) ==
    IF s = << >> THEN 0
    ELSE (IF s[1].q >= q THEN 1 ELSE 0) + CountAtLeast(Tail(s), q)

\* e put into the sorted s behind every level that is not smaller.
InsertDesc(s, e) ==
    LET k == CountAtLeast(s, e.q)
    IN  SubSeq(s, 1, k) \o <<e>> \o SubSeq(s, k + 1, Len(s))

RECURSIVE SortFrom(_, _)
SortFrom(s, d) ==
    IF d = << >> THEN s ELSE SortFrom(InsertDesc(s, Head(d)), Tail(d))

\* A sort by quantity that puts the smallest first.
SortedByQtyAsc(d) ==
    LET s == SortFrom(<< >>, d)
    IN  [i \in 1 .. Len(s) |-> s[Len(s) + 1 - i]]

\* sorted(d.items(), key=lambda x: x[1], reverse=True): stable, so levels
\* of equal quantity keep the order of the dict.
SortedByQtyDesc(d) == SortFrom(<< >>, d)

\* s[:n], for n >= 0.
Take(s, n) == SubSeq(s, 1, IF n < Len(s) THEN n ELSE Len(s))

\* sorted(...)[:n]
TopByQty(d, n) == Take(SortedByQtyDesc(d), n)

\* get_support_resistance(count)
get_support_resistance(count) ==
    /\ call' = [op |-> "get_support_resistance",
                count |-> count,
                supports |-> TopByQty(bids, count),
                resistances |-> TopByQty(asks, count)]
    /\ UNCHANGED <<book, ticker, last_update_time>>

\* ------------------------------------------------------------ nearest
\* The scan "for i, (p, q) in enumerate(top): d = abs(cur - p); if d <
\* best_dist: ..." from position i (1-based here) on; the result is the
\* 0-based best_idx.
RECURSIVE ScanNearest(_, _, _, _, _)
ScanNearest(top, cur, i, best_idx, best_dist) ==
    IF i > Len(top) THEN best_idx
    ELSE LET d == Abs(cur - top[i].p)
         IN  IF d < best_dist
             THEN ScanNearest(top, cur, i + 1, i - 1, d)
             ELSE ScanNearest(top, cur, i + 1, best_idx, best_dist)

\* A scan that compares with <=, so the last of equal distances wins.
RECURSIVE ScanNearestLast(_, _, _, _, _)
ScanNearestLast(top, cur, i, best_idx, best_dist) ==
    IF i > Len(top) THEN best_idx
    ELSE LET d == Abs(cur - top[i].p)
         IN  IF d <= best_dist
             THEN ScanNearestLast(top, cur, i + 1, i - 1, d)
             ELSE ScanNearestLast(top, cur, i + 1, best_idx, best_dist)

NearestOfLast(top, cur) ==
    IF top = << >> THEN None
    ELSE ScanNearestLast(top, cur, 1, 0, Abs(cur - top[1].p))

\* "if top: best_idx = 0; best_dist = abs(cur - top[0][0]); for ...":
\* None for an empty list.
NearestOf(top, cur) ==
    IF top = << >> THEN None
    ELSE ScanNearest(top, cur, 1, 0, Abs(cur - top[1].p))

\* nearest_ask_idx / nearest_bid_idx: None when there is no price, and
\* when Decimal(str(cur_price)) raises (the except branch).
NearestIdx(top, cur_price) ==
    IF cur_price = "N/A" \/ ~IsDecimal(cur_price) THEN None
    ELSE NearestOf(top, DecimalOf(cur_price))

\* ---------------------------------------------------------- dataframe
RECURSIVE Zeros(_)
Zeros(n) == IF n = 0 THEN "" ELSE "0" \o Zeros(n - 1)

\* fmt_decimal(d, ndig, fixed=True) of a whole number: d.quantize() adds
\* the ndig decimal places, format(dd, "f") writes them.
fmt_decimal(d, ndig) == ToString(d) \o "." \o Zeros(ndig)

\* The three cells of one side of row i (0-based): blank when the side
\* has fewer than i + 1 selected levels.
SideCells(top, nearest_idx, i) ==
    IF i < Len(top)
    THEN LET p == top[i + 1].p
             q == top[i + 1].q
             icon == IF nearest_idx # None /\ i = nearest_idx THEN STAR ELSE ""
             price_str == fmt_decimal(p, PRICE_DIGITS)
         IN  [qty |-> fmt_decimal(q, QTY_DIGITS),
              price |-> IF icon # "" THEN price_str \o " " \o icon ELSE price_str,
              val |-> fmt_decimal(p * q, VALUE_DIGITS)]
    ELSE [qty |-> "", price |-> "", val |-> ""]

\* rows_list
Rows(top_asks, top_bids, nearest_ask_idx, nearest_bid_idx) ==
    LET rows == IF Len(top_asks) > Len(top_bids)
                THEN Len(top_asks) ELSE Len(top_bids)
    IN  [r \in 1 .. rows |->
            LET sell == SideCells(top_asks, nearest_ask_idx, r - 1)
                buy == SideCells(top_bids, nearest_bid_idx, r - 1)
            IN  [SELL_QTY |-> sell.qty, SELL_PRICE |-> sell.price,
                 SELL_VALUE |-> sell.val, BUY_VALUE |-> buy.val,
                 BUY_PRICE |-> buy.price, BUY_QTY |-> buy.qty]]

\* An icon that marks a price that has not moved as a rise.
PriceIconNoFlat(pcur, pprev) ==
    IF pcur >= pprev THEN "UP" ELSE "DOWN"

\* icon = "\u25cf"; if pcur > pprev: icon = "\u25b2"; elif pcur < pprev:
\* icon = "\u25bc", of the two Decimals.
PriceIcon(pcur, pprev) ==
    IF pcur > pprev THEN "UP"
    ELSE IF pcur < pprev THEN "DOWN"
    ELSE "FLAT"

\* ------------------------------------- build_dataframe, called by itself
\* build_dataframe(TOP_N): with self._lock: (entered)
build_with ==
    /\ main.pc = "build"
    /\ lock = Free
    /\ lock' = Me
    /\ Goto(main, "build_locked")
    /\ UNCHANGED <<book, ticker, last_update_time, running, stop_event,
                   ws_app, apps, runs, sup, symbol, top_n, latest_df, loops>>

\* top_asks, top_bids, cur_price and prev_price are read; the lock released
build_locked ==
    /\ main.pc = "build_locked"
    /\ Goto([main EXCEPT
               !.top_asks = TopByQty(asks, main.TOP_N),
               !.top_bids = TopByQty(bids, main.TOP_N),
               !.cur_price = IF last_price_str # "" THEN last_price_str
                             ELSE "N/A",
               !.prev_price = prev_price_str],
            "build_rows")
    /\ lock' = Free
    /\ UNCHANGED <<book, ticker, last_update_time, running, stop_event,
                   ws_app, apps, runs, sup, symbol, top_n, latest_df, loops>>

\* The nearest rows, rows_list and df = pd.DataFrame(rows_list) from the
\* locals; icon = "\u25cf"; then the first operand of the test "if
\* self.prev_price_str and self.last_price_str and self.prev_price_str
\* != ...", read without the lock.
build_rows ==
    /\ main.pc = "build_rows"
    /\ LET nearest_ask_idx == NearestIdx(main.top_asks, main.cur_price)
           nearest_bid_idx == NearestIdx(main.top_bids, main.cur_price)
       IN  Goto([main EXCEPT
                   !.df = [rows |-> Rows(main.top_asks, main.top_bids,
                                         nearest_ask_idx, nearest_bid_idx),
                           current_price |-> "",
                           price_icon |-> "FLAT"]],
                IF prev_price_str # "" THEN "build_test_last"
                ELSE "build_attrs")
    /\ UNCHANGED <<book, ticker, last_update_time, running, stop_event,
                   ws_app, apps, runs, sup, symbol, top_n, latest_df, lock, loops>>

\* "... and self.last_price_str ...": the second operand, read without
\* the lock
build_test_last ==
    /\ main.pc = "build_test_last"
    /\ Goto(main, IF last_price_str # "" THEN "build_test_prev"
                  ELSE "build_attrs")
    /\ UNCHANGED <<book, ticker, last_update_time, running, stop_event,
                   ws_app, apps, runs, sup, symbol, top_n, latest_df, lock, loops>>

\* "... and self.prev_price_str != ''": the third operand, a second read
\* of the previous price without the lock
build_test_prev ==
    /\ main.pc = "build_test_prev"
    /\ Goto(main, IF prev_price_str # "" THEN "build_pprev"
                  ELSE "build_attrs")
    /\ UNCHANGED <<book, ticker, last_update_time, running, stop_event,
                   ws_app, apps, runs, sup, symbol, top_n, latest_df, lock, loops>>

\* pprev = Decimal(str(self.prev_price_str)), read without the lock;
\* Decimal() raising goes to the except clause.
build_pprev ==
    /\ main.pc = "build_pprev"
    /\ IF IsDecimal(prev_price_str)
       THEN Goto([main EXCEPT !.pprev = DecimalOf(prev_price_str)],
                 "build_pcur")
       ELSE Goto(main, "build_attrs")
    /\ UNCHANGED <<book, ticker, last_update_time, running, stop_event,
                   ws_app, apps, runs, sup, symbol, top_n, latest_df, lock, loops>>

\* pcur = Decimal(str(self.last_price_str)), read without the lock, and
\* the icon of pcur and pprev; Decimal() raising goes to the except
\* clause.
build_pcur ==
    /\ main.pc = "build_pcur"
    /\ IF IsDecimal(last_price_str)
       THEN Goto([main EXCEPT
                    !.df.price_icon = PriceIcon(DecimalOf(last_price_str),
                                                main.pprev)],
                 "build_attrs")
       ELSE Goto(main, "build_attrs")
    /\ UNCHANGED <<book, ticker, last_update_time, running, stop_event,
                   ws_app, apps, runs, sup, symbol, top_n, latest_df, lock, loops>>

\* df.attrs["current_price"] = self.last_price_str or "N/A", read without
\* the lock, and df.attrs["price_icon"] = icon; the except clause does
\* the same with the icon "\u25cf", which is the icon it is reached with;
\* return df
build_attrs ==
    /\ main.pc = "build_attrs"
    /\ Goto([main EXCEPT
               !.df.current_price = IF last_price_str # ""
                                    THEN last_price_str ELSE "N/A"],
            "idle")
    /\ UNCHANGED <<book, ticker, last_update_time, running, stop_event,
                   ws_app, apps, runs, sup, symbol, top_n, latest_df, lock, loops>>

\* --------------------------------------------- ticker poll loop, by step
\* _ticker_poll_loop of run r.  pc is the position:
\*   "while"     at the test of "while not self._stop.is_set()"
\*   "get"       at session.get(REST_TICKER_URL, ...)
\*   "with"      p is not None; at "with self._lock:"
\*   "compare"   the lock held; at "if str(p) != self.last_price_str"
\*   "set_last"  the lock held; prev_price_str assigned, last_price_str not
\*   "sleep"     in the loop of time.sleep(0.1)
\*   "exited"    the loop is left
\* sym is the "symbol" parameter of the request that gave p ("" when p is
\* None), read from self.symbol when the request is sent (line 258).
AtTick(r, pcs) == tick[r].pc \in pcs

\* A poll that takes the lock before it sends the request.
poll_while_locked(r) ==
    /\ AtTick(r, {"while"})
    /\ lock = Free
    /\ lock' = IF stop_event THEN Free ELSE Holder("ticker", r)
    /\ tick' = [tick EXCEPT ![r].pc = IF stop_event THEN "exited" ELSE "get"]
    /\ UNCHANGED <<book, ticker, last_update_time, call, running, stop_event,
                   ws_app, apps, runs, sup, symbol, top_n, latest_df, main,
                   launched, upd>>

\* while not self._stop.is_set():
poll_while(r) ==
    /\ AtTick(r, {"while"})
    /\ tick' = [tick EXCEPT ![r].pc = IF stop_event THEN "exited" ELSE "get"]
    /\ UNCHANGED <<book, ticker, last_update_time, call, running, stop_event,
                   ws_app, apps, runs, sup, held, launched, upd>>

\* The request, sent with "symbol": self.symbol as it is now and answered
\* for it, up to "if p is not None": tk is <<str(p)>> (<<"">> for an
\* entry whose "price" is the empty text, the last operand of the "or"
\* chain), << >> when the request raised, was no 200, or its body had
\* none of the three keys or was malformed (whatever is raised is passed
\* over by "except Exception").
poll_get(r, tk) ==
    /\ AtTick(r, {"get"})
    /\ tick' = [tick EXCEPT ![r].p = tk,
                            ![r].sym = IF tk = << >> THEN "" ELSE symbol,
                            ![r].pc = IF tk = << >> THEN "sleep" ELSE "with"]
    /\ UNCHANGED <<book, ticker, last_update_time, call, running, stop_event,
                   ws_app, apps, runs, sup, held, launched, upd>>

\* with self._lock: (entered)
poll_with(r) ==
    /\ AtTick(r, {"with"})
    /\ lock = Free
    /\ lock' = Holder("ticker", r)
    /\ tick' = [tick EXCEPT ![r].pc = "compare"]
    /\ UNCHANGED <<book, ticker, last_update_time, call, running, stop_event,
                   ws_app, apps, runs, sup, symbol, top_n, latest_df, main,
                   launched, upd>>

\* if str(p) != self.last_price_str: self.prev_price_str = self.last_price_str
poll_compare(r) ==
    /\ AtTick(r, {"compare"})
    /\ IF tick[r].p[1] # last_price_str
       THEN /\ prev_price_str' = last_price_str
            /\ tick' = [tick EXCEPT ![r].pc = "set_last"]
            /\ UNCHANGED <<last_price_str, lock>>
       ELSE /\ lock' = Free
            /\ tick' = [tick EXCEPT ![r].pc = "sleep", ![r].sym = ""]
            /\ UNCHANGED ticker
    /\ UNCHANGED <<book, last_update_time, call, running, stop_event,
                   ws_app, apps, runs, sup, symbol, top_n, latest_df, main,
                   launched, upd>>

\* self.last_price_str = str(p); the lock released
poll_set_last(r) ==
    /\ AtTick(r, {"set_last"})
    /\ last_price_str' = tick[r].p[1]
    /\ lock' = Free
    /\ tick' = [tick EXCEPT ![r].pc = "sleep", ![r].sym = ""]
    /\ UNCHANGED <<book, prev_price_str, last_update_time, call, running,
                   stop_event, ws_app, apps, runs, sup, symbol, top_n, latest_df,
                   main, launched, upd>>

\* for _ in range(...): if self._stop.is_set(): return; time.sleep(0.1)
poll_sleep(r) ==
    /\ AtTick(r, {"sleep"})
    /\ tick' = [tick EXCEPT ![r].pc = IF stop_event THEN "exited" ELSE "while"]
    /\ UNCHANGED <<book, ticker, last_update_time, call, running, stop_event,
                   ws_app, apps, runs, sup, held, launched, upd>>

PollWhile == \E r \in 1 .. MaxRuns : poll_while(r)
PollWith == \E r \in 1 .. MaxRuns : poll_with(r)
PollCompare == \E r \in 1 .. MaxRuns : poll_compare(r)
PollSetLast == \E r \in 1 .. MaxRuns : poll_set_last(r)
PollSleep == \E r \in 1 .. MaxRuns : poll_sleep(r)

\* _ticker_poll_loop() running in a thread of its own.
poll_loop ==
    /\ tick[1].pc = "none"
    /\ tick' = [tick EXCEPT ![1].pc = "while"]
    /\ UNCHANGED <<book, ticker, last_update_time, call, running, stop_event,
                   ws_app, apps, runs, sup, held, launched, upd>>

\* ------------------------------------------------- updater loop, by step
\* _updater_loop of run r.  pc is the position:
\*   "while"          at the test of "while not self._stop.is_set()"
\*   "try"            at df = self.build_dataframe(self.top_n)
\*   "build"          in build_dataframe, at "with self._lock:"
\*   "build_locked"   the lock held; at the four reads
\*   "build_rows"     the lock released; at the nearest rows
\*   "build_test_last" prev_price_str was set; at the read of
\*                    self.last_price_str in the test of line 497
\*   "build_test_prev" both were set; at the second read of
\*                    self.prev_price_str in that test
\*   "build_pprev"    at pprev = Decimal(str(self.prev_price_str))
\*   "build_pcur"     at pcur = Decimal(str(self.last_price_str))
\*   "build_attrs"    at df.attrs["current_price"] = ..., of the try block
\*                    or of its except clause
\*   "equals"         at "if not df.equals(last_snapshot)"
\*   "publish"        at "with self._lock:" of the loop
\*   "publish_locked" the lock held; at self._latest_df = df
\*   "sleep"          in time.sleep(0.5 + ...)
\*   "sleep_error"    in the time.sleep(1.0) of the except clause
\*   "exited"         the loop is left
\* pandas is not part of the repository: that a call of it raises is the
\* environment's choice.
AtUpd(r, pcs) == upd[r].pc \in pcs

\* df.equals(last_snapshot) that also compares the attrs.
EqualsWithAttrs(df, last_snapshot) ==
    last_snapshot # << >> /\ df = last_snapshot[1]

\* df.equals(last_snapshot): False for None; of two DataFrames it compares
\* the rows, not the attrs.
Equals(df, last_snapshot) ==
    last_snapshot # << >> /\ df.rows = last_snapshot[1].rows

\* while not self._stop.is_set():
upd_while(r) ==
    /\ AtUpd(r, {"while"})
    /\ upd' = [upd EXCEPT ![r].pc = IF stop_event THEN "exited" ELSE "try"]
    /\ UNCHANGED <<book, ticker, last_update_time, call, running, stop_event,
                   ws_app, apps, runs, sup, held, launched, tick>>

\* df = self.build_dataframe(self.top_n): self.top_n is read as it is now
\* and build_dataframe is entered
upd_try(r) ==
    /\ AtUpd(r, {"try"})
    /\ upd' = [upd EXCEPT ![r].pc = "build", ![r].TOP_N = top_n]
    /\ UNCHANGED <<book, ticker, last_update_time, call, running, stop_event,
                   ws_app, apps, runs, sup, held, launched, tick>>

\* with self._lock: (entered)
upd_build_with(r) ==
    /\ AtUpd(r, {"build"})
    /\ lock = Free
    /\ lock' = Holder("updater", r)
    /\ upd' = [upd EXCEPT ![r].pc = "build_locked"]
    /\ UNCHANGED <<book, ticker, last_update_time, call, running, stop_event,
                   ws_app, apps, runs, sup, symbol, top_n, latest_df, main,
                   launched, tick>>

\* top_asks, top_bids, cur_price and prev_price are read; the lock released
upd_build_locked(r) ==
    /\ AtUpd(r, {"build_locked"})
    /\ upd' = [upd EXCEPT
                 ![r].pc = "build_rows",
                 ![r].top_asks = TopByQty(asks, upd[r].TOP_N),
                 ![r].top_bids = TopByQty(bids, upd[r].TOP_N),
                 ![r].cur_price = IF last_price_str # "" THEN last_price_str
                                  ELSE "N/A",
                 ![r].prev_price = prev_price_str]
    /\ lock' = Free
    /\ UNCHANGED <<book, ticker, last_update_time, call, running, stop_event,
                   ws_app, apps, runs, sup, symbol, top_n, latest_df, main,
                   launched, tick>>

\* A build_dataframe that returns the DataFrame before the attrs are set.
upd_build_rows_returns(r) ==
    /\ AtUpd(r, {"build_rows"})
    /\ LET u == upd[r]
           nearest_ask_idx == NearestIdx(u.top_asks, u.cur_price)
           nearest_bid_idx == NearestIdx(u.top_bids, u.cur_price)
       IN  upd' = [upd EXCEPT
                     ![r] = [NoUpdater EXCEPT
                               !.pc = "equals",
                               !.last_snapshot = u.last_snapshot,
                               !.df = [rows |-> Rows(u.top_asks, u.top_bids,
                                                     nearest_ask_idx,
                                                     nearest_bid_idx),
                                       current_price |-> "",
                                       price_icon |-> ""]]]
    /\ UNCHANGED <<book, ticker, last_update_time, call, running, stop_event,
                   ws_app, apps, runs, sup, held, launched, tick>>

\* The nearest rows, rows_list and df = pd.DataFrame(rows_list) from the
\* locals; icon = "\u25cf"; then the first operand of the test "if
\* self.prev_price_str and self.last_price_str and self.prev_price_str
\* != ...", read without the lock.
upd_build_rows(r) ==
    /\ AtUpd(r, {"build_rows"})
    /\ LET u == upd[r]
           nearest_ask_idx == NearestIdx(u.top_asks, u.cur_price)
           nearest_bid_idx == NearestIdx(u.top_bids, u.cur_price)
       IN  upd' = [upd EXCEPT
                     ![r].pc = IF prev_price_str # "" THEN "build_test_last"
                               ELSE "build_attrs",
                     ![r].df = [rows |-> Rows(u.top_asks, u.top_bids,
                                              nearest_ask_idx, nearest_bid_idx),
                                current_price |-> "",
                                price_icon |-> "FLAT"]]
    /\ UNCHANGED <<book, ticker, last_update_time, call, running, stop_event,
                   ws_app, apps, runs, sup, held, launched, tick>>

\* "... and self.last_price_str ...": the second operand, read without
\* the lock
upd_build_test_last(r) ==
    /\ AtUpd(r, {"build_test_last"})
    /\ upd' = [upd EXCEPT
                 ![r].pc = IF last_price_str # "" THEN "build_test_prev"
                           ELSE "build_attrs"]
    /\ UNCHANGED <<book, ticker, last_update_time, call, running, stop_event,
                   ws_app, apps, runs, sup, held, launched, tick>>

\* "... and self.prev_price_str != ''": the third operand, a second read
\* of the previous price without the lock
upd_build_test_prev(r) ==
    /\ AtUpd(r, {"build_test_prev"})
    /\ upd' = [upd EXCEPT
                 ![r].pc = IF prev_price_str # "" THEN "build_pprev"
                           ELSE "build_attrs"]
    /\ UNCHANGED <<book, ticker, last_update_time, call, running, stop_event,
                   ws_app, apps, runs, sup, held, launched, tick>>

\* pprev = Decimal(str(self.prev_price_str)), read without the lock;
\* Decimal() raising goes to the except clause.
upd_build_pprev(r) ==
    /\ AtUpd(r, {"build_pprev"})
    /\ upd' = IF IsDecimal(prev_price_str)
              THEN [upd EXCEPT ![r].pc = "build_pcur",
                               ![r].pprev = DecimalOf(prev_price_str)]
              ELSE [upd EXCEPT ![r].pc = "build_attrs"]
    /\ UNCHANGED <<book, ticker, last_update_time, call, running, stop_event,
                   ws_app, apps, runs, sup, held, launched, tick>>

\* pcur = Decimal(str(self.last_price_str)), read without the lock, and
\* the icon of pcur and pprev; Decimal() raising goes to the except
\* clause.
upd_build_pcur(r) ==
    /\ AtUpd(r, {"build_pcur"})
    /\ upd' = IF IsDecimal(last_price_str)
              THEN [upd EXCEPT
                      ![r].pc = "build_attrs",
                      ![r].df.price_icon =
                          PriceIcon(DecimalOf(last_price_str), upd[r].pprev)]
              ELSE [upd EXCEPT ![r].pc = "build_attrs"]
    /\ UNCHANGED <<book, ticker, last_update_time, call, running, stop_event,
                   ws_app, apps, runs, sup, held, launched, tick>>

\* df.attrs["current_price"] = self.last_price_str or "N/A", read without
\* the lock, and df.attrs["price_icon"] = icon, in the try block or in its
\* except clause; return df (the locals of build_dataframe end with it)
upd_build_attrs(r) ==
    /\ AtUpd(r, {"build_attrs"})
    /\ upd' = [upd EXCEPT
                 ![r] = [NoUpdater EXCEPT
                           !.pc = "equals",
                           !.last_snapshot = upd[r].last_snapshot,
                           !.df = [upd[r].df EXCEPT
                                     !.current_price =
                                         IF last_price_str # ""
                                         THEN last_price_str ELSE "N/A"]]]
    /\ UNCHANGED <<book, ticker, last_update_time, call, running, stop_event,
                   ws_app, apps, runs, sup, held, launched, tick>>

\* if not df.equals(last_snapshot): ... else: idle_loops += 1
upd_equals(r) ==
    /\ AtUpd(r, {"equals"})
    /\ upd' = [upd EXCEPT
                 ![r].pc = IF Equals(upd[r].df, upd[r].last_snapshot)
                           THEN "sleep" ELSE "publish"]
    /\ UNCHANGED <<book, ticker, last_update_time, call, running, stop_event,
                   ws_app, apps, runs, sup, held, launched, tick>>

\* with self._lock: (entered)
upd_publish_with(r) ==
    /\ AtUpd(r, {"publish"})
    /\ lock = Free
    /\ lock' = Holder("updater", r)
    /\ upd' = [upd EXCEPT ![r].pc = "publish_locked"]
    /\ UNCHANGED <<book, ticker, last_update_time, call, running, stop_event,
                   ws_app, apps, runs, sup, symbol, top_n, latest_df, main,
                   launched, tick>>

\* self._latest_df = df; the lock released; last_snapshot = df
upd_publish_locked(r) ==
    /\ AtUpd(r, {"publish_locked"})
    /\ latest_df' = upd[r].df
    /\ lock' = Free
    /\ upd' = [upd EXCEPT ![r].pc = "sleep",
                          ![r].last_snapshot = <<upd[r].df>>]
    /\ UNCHANGED <<book, ticker, last_update_time, call, running, stop_event,
                   ws_app, apps, runs, sup, symbol, top_n, main, launched, tick>>

\* A call inside the try block raises, outside the two lock blocks:
\* except Exception as e: print(...); time.sleep(1.0)
upd_raise(r) ==
    /\ AtUpd(r, {"build_rows", "build_attrs", "equals"})
    /\ upd' = [upd EXCEPT
                 ![r] = [NoUpdater EXCEPT
                           !.pc = "sleep_error",
                           !.last_snapshot = upd[r].last_snapshot]]
    /\ UNCHANGED <<book, ticker, last_update_time, call, running, stop_event,
                   ws_app, apps, runs, sup, held, launched, tick>>

\* the sleep ends (df is not read again before the next tick assigns it)
upd_sleep(r) ==
    /\ AtUpd(r, {"sleep", "sleep_error"})
    /\ upd' = [upd EXCEPT ![r].pc = "while", ![r].df = EmptyDf]
    /\ UNCHANGED <<book, ticker, last_update_time, call, running, stop_event,
                   ws_app, apps, runs, sup, held, launched, tick>>

\* The property latest_df: with self._lock: return self._latest_df.copy()
read_latest_df ==
    /\ lock = Free
    /\ call' = [op |-> "latest_df", df |-> latest_df]
    /\ UNCHANGED <<book, ticker, last_update_time, life>>

\* ------------------------------------------------------------- inputs
\* What the exchange sends.  Prices: two prices, one of them also in a
\* second spelling.  Quantities: negative, zero, positive, and a text that
\* is no decimal.  Ticker prices: the two prices, and for the requests
\* the empty text of an entry {"price": ""} as well.
PriceTexts == {"1", "2", "2.0"}
QtyTexts == {"-1", "0", "1", "abc"}
TickTexts == {"1", "2"}
TickerTexts == TickTexts \cup {""}

\* A level as received: [price, quantity], or an array that lacks the
\* quantity.
Levels == {<<p, q>> : p \in PriceTexts, q \in QtyTexts} \cup {<<"1">>}

RECURSIVE SeqsUpTo(_, _)
SeqsUpTo(S, n) ==
    IF n = 0 THEN {<< >>}
    ELSE LET shorter == SeqsUpTo(S, n - 1)
         IN  shorter \cup {Append(s, x) : s \in {t \in shorter : Len(t) = n - 1},
                                          x \in S}

\* The pairs of lists (bids, asks) with at most n levels in all.
ListPairs(n) ==
    UNION {{b \in SeqsUpTo(Levels, i) : Len(b) = i} \X SeqsUpTo(Levels, n - i) :
              i \in 0 .. n}

\* A block of a stream message: a dict with its "bids" and "asks" lists,
\* or a value that is no dict.
Block(b, a) == [dict |-> TRUE, bids |-> b, asks |-> a]
NotADict == [dict |-> FALSE, bids |-> << >>, asks |-> << >>]

\* The order-book responses of the bootstrap.
Response(b, a) == [kind |-> "200", bids |-> b, asks |-> a]
Raised == [kind |-> "raise"]
Non200 == [kind |-> "non200"]

RECURSIVE CountLevels(_)
CountLevels(blocks) ==
    IF blocks = << >> THEN 0
    ELSE Len(Head(blocks).bids) + Len(Head(blocks).asks)
         + CountLevels(Tail(blocks))

\* ------------------------------------------------- the manager, called
\* Spec: the book and the prices of a constructed manager under every
\* sequence of calls.  The user's thread calls init_snapshot_and_price,
\* run statement by statement, and get_metrics; beside it the stream
\* delivers deltas, the poller a price and _clear_books() is called, each
\* when the lock is free.  call keeps the name of the last call, what a read
\* returned and, of a delta, the number of levels it carried and the call
\* before it.
Called == [op |-> "called"]

BootCall == Direct("init_snapshot_and_price", "boot_get_book", 0, Called)

BuildCall ==
    \E n \in 0 .. MaxTop : Direct("build_dataframe", "build", n, Called)

\* The order-book responses: a failure, no 200, and one level with a
\* positive, a zero or a negative quantity.
SpecResponses ==
    {Raised, Non200,
     Response(<<<<"1", "1">>>>, << >>),
     Response(<<<<"1", "0">>>>, << >>),
     Response(<< >>, <<<<"2", "-1">>>>)}

SpecGetBook == \E ob \in SpecResponses : boot_get_book(ob)

SpecGetTicker ==
    \E tk \in {<< >>} \cup {<<t>> : t \in TickerTexts} : boot_get_ticker(tk)

Delta ==
    /\ lock = Free
    /\ \E blocks \in {<<Block(pr[1], pr[2])>> : pr \in ListPairs(1)} \cup {<<NotADict>>} :
        /\ apply_books(blocks)
        /\ call' = [op |-> "apply_books",
                    levels |-> CountLevels(blocks),
                    after |-> call.op]
        /\ UNCHANGED life

Clear ==
    /\ lock = Free
    /\ clear_books
    /\ call' = [op |-> "_clear_books"]
    /\ UNCHANGED life

TickerPoll ==
    /\ lock = Free
    /\ \E tk \in {<< >>} \cup {<<t>> : t \in TickerTexts} :
        /\ ticker_poll(tk)
        /\ call' = [op |-> "_ticker_poll_loop"]
        /\ UNCHANGED life

\* The reads are calls of the user's thread.
GetMetrics ==
    /\ main.pc = "idle"
    /\ lock = Free
    /\ get_metrics
    /\ UNCHANGED life

GetTotalValues ==
    /\ main.pc = "idle"
    /\ lock = Free
    /\ get_total_values
    /\ UNCHANGED life

GetSupportResistance ==
    /\ main.pc = "idle"
    /\ lock = Free
    /\ \E count \in 0 .. MaxTop : get_support_resistance(count)
    /\ UNCHANGED life

Next ==
    \/ BootCall
    \/ SpecGetBook
    \/ boot_with_book
    \/ boot_book_locked
    \/ SpecGetTicker
    \/ boot_with_ticker
    \/ boot_ticker_locked
    \/ boot_set_last
    \/ Delta
    \/ Clear
    \/ TickerPoll
    \/ GetMetrics

Spec == Init /\ [][Next]_vars

\* --------------------------------------------- one call, with its input
\* The dicts with keys in K and values in Q, in every insertion order.
Sides(K, Q) ==
    {d \in SeqsUpTo([p : K, q : Q], Cardinality(K)) :
        \A i, j \in 1 .. Len(d) : d[i].p = d[j].p => i = j}

\* The books a call can find: every side over the prices 1 and 2 with the
\* quantities 0 and 1 (a snapshot stores either), beside an empty or
\* one-level other side.  Each is what one bootstrap leaves.
PriorSides == Sides({1, 2}, {0, 1})
FewSides == {<< >>, <<[p |-> 1, q |-> 1]>>}
PriorBooks == (PriorSides \X FewSides) \cup (FewSides \X PriorSides)

InitCalls ==
    /\ \E b \in PriorBooks : bids = b[1] /\ asks = b[2]
    /\ last_price_str = ""
    /\ prev_price_str = ""
    /\ last_update_time = "__init__"
    /\ call = [op |-> "prior"]
    /\ InitLife

\* The stream messages: one block with at most MaxLevels levels, or two
\* blocks (the first possibly no dict) with at most one level each.
Messages ==
    {<<Block(pr[1], pr[2])>> : pr \in ListPairs(MaxLevels)}
    \cup {<<NotADict>>}
    \cup {<<b1, Block(pr[1], pr[2])>> :
            b1 \in {NotADict} \cup {Block(qr[1], qr[2]) : qr \in ListPairs(1)},
            pr \in ListPairs(1)}

\* SpecCalls: one call on each such book; call keeps the arguments and the
\* book the call found.  The bootstrap runs statement by statement.
CallBoot ==
    /\ call.op = "prior"
    /\ Direct("init_snapshot_and_price", "boot_get_book", 0,
              [op |-> "called", pre_bids |-> bids, pre_asks |-> asks])

CallGetBook ==
    \E ob \in {Raised, Non200}
               \cup {Response(pr[1], pr[2]) : pr \in ListPairs(MaxLevels)} :
        boot_get_book(ob)

CallGetTicker == \E tk \in {<< >>, <<"1">>} : boot_get_ticker(tk)

CallDelta ==
    /\ call.op = "prior"
    /\ \E blocks \in Messages :
        /\ apply_books(blocks)
        /\ call' = [op |-> "apply_books", blocks |-> blocks,
                    pre_bids |-> bids, pre_asks |-> asks]
        /\ UNCHANGED life

\* What the stream sends: a text that is no JSON, a control message, a
\* message without data, book messages of one block with at most one
\* level, and trade messages, tagged or not, of one or two trades.
TradeLists ==
    {<<Trade(p)>> : p \in TickTexts}
    \cup {<<Trade(p), Trade(q)>> : p \in TickTexts, q \in TickTexts}
StreamMessages ==
    {NoJson, Control, NoData}
    \cup {Message("books", <<Block(pr[1], pr[2])>>) : pr \in ListPairs(1)}
    \cup {Message(ch, ts) : ch \in {"trade", ""}, ts \in TradeLists}
    \cup {Message("trade", <<Block(<<<<"1", "1">>>>, << >>)>>)}

CallMessage ==
    /\ call.op = "prior"
    /\ \E msg \in StreamMessages :
        /\ on_message(msg)
        /\ call' = [op |-> "_on_message", msg |-> msg,
                    raised |-> Raises(msg),
                    pre_bids |-> bids, pre_asks |-> asks]
        /\ UNCHANGED life

NextCalls ==
    \/ CallBoot
    \/ CallGetBook
    \/ boot_with_book
    \/ boot_book_locked
    \/ CallGetTicker
    \/ boot_with_ticker
    \/ boot_ticker_locked
    \/ boot_set_last
    \/ CallDelta
    \/ CallMessage

SpecCalls == InitCalls /\ [][NextCalls]_vars

\* ------------------------------------------------------ the read views
\* SpecView: the read operations on books of up to MaxPrice levels a side
\* (quantities 1 and 2, so that ties occur) and on every kind of price
\* string: none, a price, a second spelling, a text that is no decimal.
ViewSides == Sides(1 .. MaxPrice, {1, 2})
ViewBooks == (ViewSides \X FewSides) \cup (FewSides \X ViewSides)
ViewTicks == {ToString(n) : n \in 1 .. MaxPrice} \cup {"2.0", "abc"}

InitView ==
    /\ \E b \in ViewBooks : bids = b[1] /\ asks = b[2]
    /\ last_price_str \in {""} \cup ViewTicks
    /\ prev_price_str \in {"", "2"}
    /\ last_update_time = "apply_books"
    /\ call = [op |-> "prior"]
    /\ InitLife

\* The poll loop runs beside the user's thread, statement by statement;
\* its requests give the lowest price.
ViewPollGet == poll_get(1, <<"1">>)

NextView ==
    \/ GetMetrics
    \/ GetTotalValues
    \/ GetSupportResistance
    \/ BuildCall
    \/ build_with
    \/ build_locked
    \/ build_rows
    \/ build_test_last
    \/ build_test_prev
    \/ build_pprev
    \/ build_pcur
    \/ build_attrs
    \/ poll_loop
    \/ PollWhile
    \/ ViewPollGet
    \/ PollWith
    \/ PollCompare
    \/ PollSetLast
    \/ PollSleep

SpecView == InitView /\ [][NextView]_vars

\* ------------------------------------------ a feed with prices that are 0
\* SpecPrices: the stream delivers, one level a message, prices that D
\* reads as 0 ("0", and a text that is no decimal) beside real ones, with
\* the quantity 1 (stored) or 0 (removed); get_metrics reads the book.
ZeroPriceTexts == {"0", "abc"}
FeedLevels == {<<p, q>> : p \in {"1", "2"} \cup ZeroPriceTexts, q \in {"0", "1"}}

FeedDelta ==
    \E name \in {"bids", "asks"}, it \in FeedLevels :
        /\ apply_books(<<IF name = "bids" THEN Block(<<it>>, << >>)
                                          ELSE Block(<< >>, <<it>>)>>)
        /\ call' = [op |-> "apply_books", levels |-> 1, after |-> call.op]
        /\ UNCHANGED life

NextPrices ==
    \/ FeedDelta
    \/ GetMetrics

SpecPrices == Init /\ [][NextPrices]_vars

\* ------------------------------------------------------ the price trace
\* SpecTicker: the two price strings under the poll and the bootstrap,
\* with build_dataframe reading them; the poll loop runs statement by
\* statement beside the two others.  The prices observed: two prices,
\* the second spelling of one, a text that is no decimal, and the empty
\* text.
TraceTexts == {"1", "2", "2.0", "abc", ""}
TraceTicks == {<< >>} \cup {<<t>> : t \in TraceTexts}

TracePollGet == \E tk \in TraceTicks : poll_get(1, tk)

TraceGetBook ==
    \E ob \in {Raised, Response(<< >>, <<<<"2", "1">>>>)} : boot_get_book(ob)

TraceGetTicker == \E tk \in TraceTicks : boot_get_ticker(tk)

NextTicker ==
    \/ poll_loop
    \/ PollWhile
    \/ TracePollGet
    \/ PollWith
    \/ PollCompare
    \/ PollSetLast
    \/ PollSleep
    \/ BootCall
    \/ TraceGetBook
    \/ boot_with_book
    \/ boot_book_locked
    \/ TraceGetTicker
    \/ boot_with_ticker
    \/ boot_ticker_locked
    \/ boot_set_last
    \/ BuildCall
    \/ build_with
    \/ build_locked
    \/ build_rows
    \/ build_test_last
    \/ build_test_prev
    \/ build_pprev
    \/ build_pcur
    \/ build_attrs

SpecTicker == Init /\ [][NextTicker]_vars

\* ------------------------------------------------- the manager, running
\* SpecLife: start() and stop() called from the user's thread, each run
\* statement by statement, and the stream supervisor of each run stepping
\* between the statements.  The bootstrap
\* loads one ask and gets a price; the open connection delivers a book
\* message or a trade message.
LifeResponses == {Response(<< >>, <<<<"2", "1">>>>)}
LifeTicks == {<<"1">>}
LifeMessages ==
    {Message("books", <<Block(<<<<"1", "1">>>>, << >>)>>),
     Message("trade", <<Trade("2")>>)}

LifeStart ==
    /\ running \/ runs < LifeRuns
    /\ Enter("start", "start", << >>, << >>)

LifeStop == Enter("stop", "stop", << >>, << >>)

LifeGetBook == \E ob \in LifeResponses : boot_get_book(ob)
LifeGetTicker == \E tk \in LifeTicks : boot_get_ticker(tk)

WsWhile == \E r \in 1 .. MaxRuns : ws_while(r)
WsCreate == \E r \in 1 .. MaxRuns : ws_create(r)
WsRunForever == \E r \in 1 .. MaxRuns : ws_run_forever(r)
WsOpen == \E r \in 1 .. MaxRuns : ws_open(r)
WsOnOpen == \E r \in 1 .. MaxRuns : ws_on_open(r)
WsRaise == \E r \in 1 .. MaxRuns : ws_raise(r)
WsReturn == \E r \in 1 .. MaxRuns : ws_return(r)
WsExcept == \E r \in 1 .. MaxRuns : ws_except(r)
WsBackoff == \E r \in 1 .. MaxRuns : ws_backoff(r)
WsElse == \E r \in 1 .. MaxRuns : ws_else(r)
WsPause == \E r \in 1 .. MaxRuns : ws_pause(r)
WsMessage == \E r \in 1 .. MaxRuns, msg \in LifeMessages : ws_message(r, msg)
WsApplyBooksWith == \E r \in 1 .. MaxRuns : ws_apply_books_with(r)
WsApplyBooksLocked == \E r \in 1 .. MaxRuns : ws_apply_books_locked(r)

\* run_forever returns, by itself only while fewer than RunsApps apps
\* have been made.
runs_return(r) == MayEnd(r, RunsApps) /\ ws_return(r)
RunsWsReturn == \E r \in 1 .. MaxRuns : runs_return(r)

NextLife ==
    \/ LifeStart
    \/ LifeStop
    \/ start_test
    \/ start_clear
    \/ LifeGetBook
    \/ boot_with_book
    \/ boot_book_locked
    \/ LifeGetTicker
    \/ boot_with_ticker
    \/ boot_ticker_locked
    \/ boot_set_last
    \/ launch_ws
    \/ launch_ticker
    \/ launch_updater
    \/ set_running
    \/ stop_test
    \/ stop_set
    \/ stop_close
    \/ stop_join
    \/ stop_running
    \/ WsWhile
    \/ WsCreate
    \/ WsRunForever
    \/ WsOpen
    \/ WsOnOpen
    \/ WsRaise
    \/ WsReturn
    \/ WsExcept
    \/ WsBackoff
    \/ WsElse
    \/ WsPause
    \/ WsMessage
    \/ WsApplyBooksWith
    \/ WsApplyBooksLocked

SpecLife == Init /\ [][NextLife]_vars

\* ----------------------------------------- the manager, under its controls
\* SpecCtl: the user's thread calls start(), stop(), restart() and
\* _clear_books(), one after the other, each run statement by statement
\* (the loops it launches do not step).  The bootstrap's order-book request raises or loads one ask; its ticker
\* request fails or gives one of two prices or the empty text.  restart() is given None, a
\* false value or a true one for each parameter.
CtlResponses == {Raised, Response(<< >>, <<<<"2", "1">>>>)}
CtlTicks == {<< >>, <<"1">>, <<"2">>, <<"">>}
CtlSymbols == {<< >>, <<"">>, <<"ETHUSDT">>}
CtlTopNs == {<< >>, <<0>>, <<MaxTop>>}

UserStart ==
    /\ running \/ runs < MaxRuns
    /\ Enter("start", "start", << >>, << >>)

UserStop == Enter("stop", "stop", << >>, << >>)

UserRestart ==
    /\ runs < MaxRuns
    /\ \E sym \in CtlSymbols, n \in CtlTopNs : Enter("restart", "stop", sym, n)

UserClear == Enter("_clear_books", "clear", << >>, << >>)

BootGetBook == \E ob \in CtlResponses : boot_get_book(ob)
BootGetTicker == \E tk \in CtlTicks : boot_get_ticker(tk)

NextCtl ==
    \/ UserStart
    \/ UserStop
    \/ UserRestart
    \/ UserClear
    \/ start_test
    \/ start_clear
    \/ BootGetBook
    \/ boot_with_book
    \/ boot_book_locked
    \/ BootGetTicker
    \/ boot_with_ticker
    \/ boot_ticker_locked
    \/ boot_set_last
    \/ launch_ws
    \/ launch_ticker
    \/ launch_updater
    \/ set_running
    \/ stop_test
    \/ stop_set
    \/ stop_close
    \/ stop_join
    \/ stop_running
    \/ restart_symbol
    \/ restart_top_n
    \/ clear_with
    \/ clear_locked
    \/ restart_sleep

SpecCtl == Init /\ [][NextCtl]_vars

\* ------------------------------------------------ the manager, restarted
\* SpecRestart: the user calls restart() again and again, each call run
\* statement by statement, while the stream supervisor of every run
\* connects, subscribes and, when run_forever returns, connects again.  Each call gives both parameters as None,
\* as false values or as true ones; the bootstrap loads one ask and gets
\* one price.
RestartArgs ==
    {<<<< >>, << >>>>, <<<<"">>, <<0>>>>, <<<<"ETHUSDT">>, <<MaxTop>>>>}

UserRestartWith ==
    /\ runs < MaxRuns
    /\ \E a \in RestartArgs : Enter("restart", "stop", a[1], a[2])

RestartGetBook == boot_get_book(Response(<< >>, <<<<"2", "1">>>>))
RestartGetTicker == boot_get_ticker(<<"1">>)

NextRestart ==
    \/ UserRestartWith
    \/ stop_test
    \/ stop_set
    \/ stop_close
    \/ stop_join
    \/ stop_running
    \/ restart_symbol
    \/ restart_top_n
    \/ clear_with
    \/ clear_locked
    \/ restart_sleep
    \/ start_test
    \/ start_clear
    \/ RestartGetBook
    \/ boot_with_book
    \/ boot_book_locked
    \/ RestartGetTicker
    \/ boot_with_ticker
    \/ boot_ticker_locked
    \/ boot_set_last
    \/ launch_ws
    \/ launch_ticker
    \/ launch_updater
    \/ set_running
    \/ WsWhile
    \/ WsCreate
    \/ WsRunForever
    \/ WsOpen
    \/ WsOnOpen
    \/ RunsWsReturn
    \/ WsElse
    \/ WsPause

SpecRestart == Init /\ [][NextRestart]_vars

\* --------------------------------------------- the manager, aggregating
\* SpecAgg: one run.  start(), run statement by statement, loads one ask
\* and a price; the ticker poll loop (each request gives one of two
\* prices), the updater loop and the stream supervisor run step by step,
\* the open stream delivers a delta that adds one bid, and the user reads
\* latest_df.  Whoever needs the lock waits until it is free.
AggResponses == {Response(<< >>, <<<<"2", "1">>>>)}
AggTicks == {<<"1">>, <<"2">>}
AggMessages == {Message("books", <<Block(<<<<"1", "1">>>>, << >>)>>)}

AggStart ==
    /\ runs = 0
    /\ Enter("start", "start", << >>, << >>)

AggGetBook == \E ob \in AggResponses : boot_get_book(ob)
AggGetTicker == boot_get_ticker(<<"1">>)

AggMessage == \E r \in 1 .. MaxRuns, msg \in AggMessages : ws_message(r, msg)

PollGet == \E r \in 1 .. MaxRuns, tk \in AggTicks : poll_get(r, tk)

UpdWhile == \E r \in 1 .. MaxRuns : upd_while(r)
UpdTry == \E r \in 1 .. MaxRuns : upd_try(r)
UpdBuildWith == \E r \in 1 .. MaxRuns : upd_build_with(r)
UpdBuildLocked == \E r \in 1 .. MaxRuns : upd_build_locked(r)
UpdBuildRows == \E r \in 1 .. MaxRuns : upd_build_rows(r)
UpdBuildTestLast == \E r \in 1 .. MaxRuns : upd_build_test_last(r)
UpdBuildTestPrev == \E r \in 1 .. MaxRuns : upd_build_test_prev(r)
UpdBuildPprev == \E r \in 1 .. MaxRuns : upd_build_pprev(r)
UpdBuildPcur == \E r \in 1 .. MaxRuns : upd_build_pcur(r)
UpdBuildAttrs == \E r \in 1 .. MaxRuns : upd_build_attrs(r)
UpdEquals == \E r \in 1 .. MaxRuns : upd_equals(r)
UpdPublishWith == \E r \in 1 .. MaxRuns : upd_publish_with(r)
UpdPublishLocked == \E r \in 1 .. MaxRuns : upd_publish_locked(r)
UpdRaise == \E r \in 1 .. MaxRuns : upd_raise(r)
UpdSleep == \E r \in 1 .. MaxRuns : upd_sleep(r)

NextAgg ==
    \/ AggStart
    \/ start_test
    \/ start_clear
    \/ AggGetBook
    \/ boot_with_book
    \/ boot_book_locked
    \/ AggGetTicker
    \/ boot_with_ticker
    \/ boot_ticker_locked
    \/ boot_set_last
    \/ launch_ws
    \/ launch_ticker
    \/ launch_updater
    \/ set_running
    \/ WsWhile
    \/ WsCreate
    \/ WsRunForever
    \/ WsOpen
    \/ WsOnOpen
    \/ AggMessage
    \/ WsApplyBooksWith
    \/ WsApplyBooksLocked
    \/ PollWhile
    \/ PollGet
    \/ PollWith
    \/ PollCompare
    \/ PollSetLast
    \/ PollSleep
    \/ UpdWhile
    \/ UpdTry
    \/ UpdBuildWith
    \/ UpdBuildLocked
    \/ UpdBuildRows
    \/ UpdBuildTestLast
    \/ UpdBuildTestPrev
    \/ UpdBuildPprev
    \/ UpdBuildPcur
    \/ UpdBuildAttrs
    \/ UpdEquals
    \/ UpdPublishWith
    \/ UpdPublishLocked
    \/ UpdSleep
    \/ read_latest_df

SpecAgg == Init /\ [][NextAgg]_vars

\* ------------------------------------------------ the manager, its loops
\* SpecLoops: one run.  The user calls start() once and then stop(), each
\* run statement by statement, and the three loops go step by step
\* through good and failed iterations: the stream connects, raises,
\* returns and is handed a text that is no JSON, a message of the trades
\* channel with a trade or with levels, and a message of the books channel
\* whose block has a trade key beside its levels; every poll request
\* fails; a call of the updater's try block may raise.  No previous price
\* is ever set, so build_dataframe goes from the rows to the attrs.
LoopFails == 1
LoopResponses == {Response(<< >>, <<<<"2", "1">>>>)}
LoopTicks == {<< >>}
LoopMessages ==
    {NoJson,
     Message("trades", <<Trade("2")>>),
     Message("trades", <<Block(<<<<"1", "1">>>>, << >>)>>),
     Message("books", <<TradedBlock(<<<<"1", "1">>>>, << >>, "2")>>)}

LoopStart ==
    /\ runs = 0
    /\ Enter("start", "start", << >>, << >>)

LoopGetBook == \E ob \in LoopResponses : boot_get_book(ob)
LoopGetTicker == boot_get_ticker(<<"1">>)

LoopWsRaise ==
    \E r \in 1 .. MaxRuns : sup[r].fails < LoopFails /\ ws_raise(r)

\* call keeps the message handed over and whether its handling is over.
LoopMessage ==
    \E r \in 1 .. MaxRuns, msg \in LoopMessages :
        /\ ws_on_message(r, msg)
        /\ call' = [op |-> "_on_message", json |-> msg.json,
                    done |-> ~HasBooks(msg), raised |-> Raises(msg)]

LoopPollGet == \E r \in 1 .. MaxRuns, tk \in LoopTicks : poll_get(r, tk)

NextLoops ==
    \/ LoopStart
    \/ UserStop
    \/ start_test
    \/ start_clear
    \/ LoopGetBook
    \/ boot_with_book
    \/ boot_book_locked
    \/ LoopGetTicker
    \/ boot_with_ticker
    \/ boot_ticker_locked
    \/ boot_set_last
    \/ launch_ws
    \/ launch_ticker
    \/ launch_updater
    \/ set_running
    \/ stop_test
    \/ stop_set
    \/ stop_close
    \/ stop_join
    \/ stop_running
    \/ WsWhile
    \/ WsCreate
    \/ WsRunForever
    \/ WsOpen
    \/ WsOnOpen
    \/ LoopWsRaise
    \/ RunsWsReturn
    \/ WsExcept
    \/ WsBackoff
    \/ WsElse
    \/ WsPause
    \/ LoopMessage
    \/ WsApplyBooksWith
    \/ WsApplyBooksLocked
    \/ PollWhile
    \/ LoopPollGet
    \/ PollSleep
    \/ UpdWhile
    \/ UpdTry
    \/ UpdBuildWith
    \/ UpdBuildLocked
    \/ UpdBuildRows
    \/ UpdBuildAttrs
    \/ UpdEquals
    \/ UpdPublishWith
    \/ UpdPublishLocked
    \/ UpdRaise
    \/ UpdSleep

SpecLoops == Init /\ [][NextLoops]_vars

\* ---------------------------------------------- the manager, at its lock
\* SpecLock: one run.  The user calls start() once, run statement by
\* statement, and _clear_books(); the ticker poll loop (each request gives
\* a price that is not the bootstrap's), the updater loop and the stream
\* supervisor, which is handed deltas that add and remove one bid, take
\* and release the lock step by step.
LockMessages ==
    {Message("books", <<Block(<<<<"1", "1">>>>, << >>)>>),
     Message("books", <<Block(<<<<"1", "0">>>>, << >>)>>)}

LockMessage == \E r \in 1 .. MaxRuns, msg \in LockMessages : ws_message(r, msg)

LockPollGet == \E r \in 1 .. MaxRuns : poll_get(r, <<"2">>)

NextLock ==
    \/ AggStart
    \/ UserClear
    \/ start_test
    \/ start_clear
    \/ AggGetBook
    \/ boot_with_book
    \/ boot_book_locked
    \/ AggGetTicker
    \/ boot_with_ticker
    \/ boot_ticker_locked
    \/ boot_set_last
    \/ launch_ws
    \/ launch_ticker
    \/ launch_updater
    \/ set_running
    \/ clear_with
    \/ clear_locked
    \/ WsWhile
    \/ WsCreate
    \/ WsRunForever
    \/ WsOpen
    \/ WsOnOpen
    \/ LockMessage
    \/ WsApplyBooksWith
    \/ WsApplyBooksLocked
    \/ PollWhile
    \/ LockPollGet
    \/ PollWith
    \/ PollCompare
    \/ PollSetLast
    \/ PollSleep
    \/ UpdWhile
    \/ UpdTry
    \/ UpdBuildWith
    \/ UpdBuildLocked
    \/ UpdBuildRows
    \/ UpdBuildTestLast
    \/ UpdBuildTestPrev
    \/ UpdBuildPprev
    \/ UpdBuildPcur
    \/ UpdBuildAttrs
    \/ UpdEquals
    \/ UpdPublishWith
    \/ UpdPublishLocked
    \/ UpdSleep

SpecLock == Init /\ [][NextLock]_vars

\* ------------------------------------------ the three loops, over two runs
\* SpecRuns: the user calls start() and stop(), each run statement by
\* statement, beside the three loops of every run launched: MaxRuns runs,
\* each but the last stopped.  The book does not change, the ticker
\* requests of the poll loops fail and the updater's call of pandas
\* raises in every tick.
RunsResponses == {Response(<< >>, <<<<"2", "1">>>>)}

\* A loop thread that has not returned.
Alive(pc) == pc \notin {"none", "exited"}

RunsStart ==
    /\ runs < MaxRuns
    /\ ~running
    /\ Enter("start", "start", << >>, << >>)

RunsStop ==
    /\ running
    /\ runs < MaxRuns
    /\ Enter("stop", "stop", << >>, << >>)

RunsGetBook == \E ob \in RunsResponses : boot_get_book(ob)
RunsGetTicker == boot_get_ticker(<<"1">>)

RunsPollGet == \E r \in 1 .. MaxRuns : poll_get(r, << >>)

NextRuns ==
    \/ RunsStart
    \/ start_test
    \/ start_clear
    \/ RunsGetBook
    \/ boot_with_book
    \/ boot_book_locked
    \/ RunsGetTicker
    \/ boot_with_ticker
    \/ boot_ticker_locked
    \/ boot_set_last
    \/ launch_ws
    \/ launch_ticker
    \/ launch_updater
    \/ set_running
    \/ RunsStop
    \/ stop_test
    \/ stop_set
    \/ stop_close
    \/ stop_join
    \/ stop_running
    \/ WsWhile
    \/ WsCreate
    \/ WsRunForever
    \/ WsOpen
    \/ WsOnOpen
    \/ RunsWsReturn
    \/ WsElse
    \/ WsPause
    \/ PollWhile
    \/ RunsPollGet
    \/ PollSleep
    \/ UpdWhile
    \/ UpdTry
    \/ UpdBuildWith
    \/ UpdBuildLocked
    \/ UpdRaise
    \/ UpdSleep

SpecRuns == Init /\ [][NextRuns]_vars

\* SpecRunsFair: the runs of SpecRuns in an environment that fails: the
\* requests of the bootstrap and of the poll loops fail and the updater's
\* call of pandas raises in every tick, the stream connects and returns.
\* Every thread is scheduled: a thread that can take its next statement
\* takes it in the end (every request, sleep and join is bounded, and a
\* run_forever that stays free to return, as it is once its connection
\* was closed, returns), and a thread that waits for the lock gets it in
\* the end.  Nothing makes the user call start() or stop(), but a call
\* made returns.
FairGetBook == boot_get_book(Raised)
FairGetTicker == boot_get_ticker(<< >>)

CallStep ==
    \/ start_test
    \/ start_clear
    \/ FairGetBook
    \/ FairGetTicker
    \/ launch_ws
    \/ launch_ticker
    \/ launch_updater
    \/ set_running
    \/ stop_test
    \/ stop_set
    \/ stop_close
    \/ stop_join
    \/ stop_running

SupStep(r) ==
    \/ ws_while(r)
    \/ ws_create(r)
    \/ ws_run_forever(r)
    \/ ws_open(r)
    \/ ws_on_open(r)
    \/ runs_return(r)
    \/ ws_else(r)
    \/ ws_pause(r)

PollStep(r) ==
    \/ poll_while(r)
    \/ poll_get(r, << >>)
    \/ poll_sleep(r)

RaisingUpdStep(r) ==
    \/ upd_while(r)
    \/ upd_try(r)
    \/ upd_build_with(r)
    \/ upd_build_locked(r)
    \/ upd_raise(r)
    \/ upd_sleep(r)

UpdStep(r) ==
    \/ upd_while(r)
    \/ upd_try(r)
    \/ upd_build_with(r)
    \/ upd_build_locked(r)
    \/ upd_build_rows(r)
    \/ upd_build_test_last(r)
    \/ upd_build_test_prev(r)
    \/ upd_build_pprev(r)
    \/ upd_build_pcur(r)
    \/ upd_build_attrs(r)
    \/ upd_equals(r)
    \/ upd_publish_with(r)
    \/ upd_publish_locked(r)
    \/ upd_sleep(r)

NextRunsFair ==
    \/ RunsStart
    \/ RunsStop
    \/ CallStep
    \/ WsWhile
    \/ WsCreate
    \/ WsRunForever
    \/ WsOpen
    \/ WsOnOpen
    \/ RunsWsReturn
    \/ WsElse
    \/ WsPause
    \/ PollWhile
    \/ RunsPollGet
    \/ PollSleep
    \/ UpdWhile
    \/ UpdTry
    \/ UpdBuildWith
    \/ UpdBuildLocked
    \/ UpdRaise
    \/ UpdSleep

LoopsScheduled ==
    /\ WF_vars(CallStep)
    /\ \A r \in 1 .. MaxRuns :
        /\ WF_vars(SupStep(r))
        /\ WF_vars(PollStep(r))
        /\ SF_vars(RaisingUpdStep(r))

SpecRunsFair == Init /\ [][NextRunsFair]_vars /\ LoopsScheduled

\* ------------------------------------------- the updater, kept running
\* SpecPublish: one run, the book as the bootstrap left it; the poller
\* finds the prices of SpecAgg, and both threads are scheduled: each takes
\* its next statement in the end and gets the lock in the end.  Nothing
\* makes the exchange send another price.
NextPublish ==
    \/ AggStart
    \/ start_test
    \/ start_clear
    \/ AggGetBook
    \/ boot_with_book
    \/ boot_book_locked
    \/ AggGetTicker
    \/ boot_with_ticker
    \/ boot_ticker_locked
    \/ boot_set_last
    \/ launch_ws
    \/ launch_ticker
    \/ launch_updater
    \/ set_running
    \/ PollWhile
    \/ PollGet
    \/ PollWith
    \/ PollCompare
    \/ PollSetLast
    \/ PollSleep
    \/ UpdWhile
    \/ UpdTry
    \/ UpdBuildWith
    \/ UpdBuildLocked
    \/ UpdBuildRows
    \/ UpdBuildTestLast
    \/ UpdBuildTestPrev
    \/ UpdBuildPprev
    \/ UpdBuildPcur
    \/ UpdBuildAttrs
    \/ UpdEquals
    \/ UpdPublishWith
    \/ UpdPublishLocked
    \/ UpdSleep

PricedPollStep(r) ==
    \/ poll_while(r)
    \/ \E tk \in AggTicks : poll_get(r, tk)
    \/ poll_with(r)
    \/ poll_compare(r)
    \/ poll_set_last(r)
    \/ poll_sleep(r)

BothScheduled ==
    \A r \in 1 .. MaxRuns :
        /\ SF_vars(PricedPollStep(r))
        /\ SF_vars(UpdStep(r))

SpecPublish == Init /\ [][NextPublish]_vars /\ BothScheduled

\* --------------------------------------------- the manager, over two runs
\* SpecSwap: the user calls start() and then restart("ETHUSDT"), each run
\* statement by statement, beside the stream supervisor and the ticker
\* poll loop of every run launched (the updater loops, which write neither
\* the book nor the prices, take no step).  The exchange answers a ticker request with the price of the instrument
\* asked for, and an open connection delivers one delta.
SwapPrice(sym) == IF sym = "BTCUSDT" THEN <<"1">> ELSE <<"2">>
SwapResponses == {Response(<< >>, <<<<"2", "1">>>>)}
SwapMessages == {Message("books", <<Block(<<<<"1", "1">>>>, << >>)>>)}

SwapStart ==
    /\ runs = 0
    /\ Enter("start", "start", << >>, << >>)

SwapRestart ==
    /\ runs < MaxRuns
    /\ running
    /\ Enter("restart", "stop", <<"ETHUSDT">>, << >>)

SwapGetBook == \E ob \in SwapResponses : boot_get_book(ob)
SwapGetTicker == boot_get_ticker(SwapPrice(main.sym))
SwapPollGet == \E r \in 1 .. MaxRuns : poll_get(r, SwapPrice(symbol))

SwapMessage == \E r \in 1 .. MaxRuns, msg \in SwapMessages : ws_message(r, msg)

NextSwap ==
    \/ SwapStart
    \/ SwapRestart
    \/ start_test
    \/ start_clear
    \/ SwapGetBook
    \/ boot_with_book
    \/ boot_book_locked
    \/ SwapGetTicker
    \/ boot_with_ticker
    \/ boot_ticker_locked
    \/ boot_set_last
    \/ launch_ws
    \/ launch_ticker
    \/ launch_updater
    \/ set_running
    \/ stop_test
    \/ stop_set
    \/ stop_close
    \/ stop_join
    \/ stop_running
    \/ restart_symbol
    \/ restart_top_n
    \/ clear_with
    \/ clear_locked
    \/ restart_sleep
    \/ WsWhile
    \/ WsCreate
    \/ WsRunForever
    \/ WsOpen
    \/ WsOnOpen
    \/ RunsWsReturn
    \/ WsElse
    \/ WsPause
    \/ SwapMessage
    \/ WsApplyBooksWith
    \/ WsApplyBooksLocked
    \/ PollWhile
    \/ SwapPollGet
    \/ PollWith
    \/ PollCompare
    \/ PollSetLast
    \/ PollSleep

SpecSwap == Init /\ [][NextSwap]_vars

\* ========================================================== properties
\* Helpers of the properties below (they model no code).
SideNames == {"bids", "asks"}
Side(name) == IF name = "bids" THEN bids ELSE asks
PreSide(name) == IF name = "bids" THEN call.pre_bids ELSE call.pre_asks

\* A level that has both fields.
HasBothFields(it) == Len(it) >= 2

\* The levels a message carries for one side, in the order given.
RECURSIVE Updates(_, _)
Updates(blocks, name) ==
    IF blocks = << >> THEN << >>
    ELSE (IF Head(blocks).dict THEN Head(blocks)[name] ELSE << >>)
         \o Updates(Tail(blocks), name)

\* i is the last level of ups, among those with both fields, for price p.
IsLastFor(ups, i, p) ==
    /\ HasBothFields(ups[i])
    /\ D(ups[i][1]) = p
    /\ \A j \in (i + 1) .. Len(ups) :
          HasBothFields(ups[j]) => D(ups[j][1]) # p

Positive(d) == \A i \in 1 .. Len(d) : d[i].q > 0

\* C1: every quantity stored on either side is strictly positive.
\* (Violated: the bootstrap stores whatever quantity it is given, a delta
\* stores a negative one.)
AllQuantitiesPositive == Positive(bids) /\ Positive(asks)

\* C2: after a delta whose last update for price p on a side has quantity
\* 0, p is absent from that side, whether it was there before or not; a
\* delta of such updates for absent prices only leaves the side as it was.
ZeroQuantityLevelAbsent ==
    call.op = "apply_books" =>
        \A name \in SideNames :
            LET ups == Updates(call.blocks, name)
            IN  /\ \A i \in 1 .. Len(ups) : \A p \in 0 .. MaxPrice :
                      (IsLastFor(ups, i, p) /\ D(ups[i][2]) = 0)
                          => ~Has(Side(name), p)
                /\ (\A i \in 1 .. Len(ups) :
                       HasBothFields(ups[i])
                           => /\ D(ups[i][2]) = 0
                              /\ ~Has(PreSide(name), D(ups[i][1])))
                   => Side(name) = PreSide(name)

\* C2 witness: a delta removed a bid that was there, by a quantity "0".
ZeroQuantityRemovedLevel ==
    /\ call.op = "apply_books"
    /\ LET ups == Updates(call.blocks, "bids")
       IN  \E i \in 1 .. Len(ups) : \E p \in 1 .. MaxPrice :
              /\ IsLastFor(ups, i, p)
              /\ ups[i][2] = "0"
              /\ Has(call.pre_bids, p)
              /\ ~Has(bids, p)

\* The side a bootstrap list must leave: its keys are the prices of the
\* levels with both fields, each with the quantity of the last such level.
HoldsExactly(d, raw) ==
    /\ \A k \in Keys(d) :
          \E i \in 1 .. Len(raw) : IsLastFor(raw, i, k) /\ Get(d, k) = D(raw[i][2])
    /\ \A i \in 1 .. Len(raw) :
          HasBothFields(raw[i]) => Has(d, D(raw[i][1]))
    /\ \A i, j \in 1 .. Len(d) : d[i].p = d[j].p => i = j

\* C3: the lock block of a bootstrap that received the lists B and A
\* leaves each side holding exactly the levels of its list that have both
\* fields, and nothing of the book before; a level lacking a field is
\* skipped.
SnapshotReplacesBook ==
    [][(/\ main.pc = "boot_book_locked"
        /\ main'.pc # main.pc
        /\ main.ob.kind = "200")
       => /\ HoldsExactly(bids', main.ob.bids)
          /\ HoldsExactly(asks', main.ob.asks)]_vars

\* C3 witness: a bootstrap has left its lock block (it is in its ticker
\* request): it dropped a bid of the book it found, skipped a level
\* without quantity and loaded the level after it.
SnapshotSkippedAndReplaced ==
    /\ main.op = "init_snapshot_and_price"
    /\ main.pc = "boot_get_ticker"
    /\ main.ob.kind = "200"
    /\ call.op = "called"
    /\ \E k \in Keys(call.pre_bids) : ~Has(bids, k)
    /\ LET raw == main.ob.bids
       IN  \E i, j \in 1 .. Len(raw) :
              /\ i < j
              /\ ~HasBothFields(raw[i])
              /\ HasBothFields(raw[j])
              /\ Has(bids, D(raw[j][1]))

\* C4: within one delta the updates of a price on a side apply in order:
\* the last one decides, present with its quantity when that is not 0,
\* absent when it is 0.
LastUpdateWins ==
    call.op = "apply_books" =>
        \A name \in SideNames :
            LET ups == Updates(call.blocks, name)
            IN  \A i \in 1 .. Len(ups) : \A p \in 0 .. MaxPrice :
                    IsLastFor(ups, i, p) =>
                        IF D(ups[i][2]) # 0
                        THEN Has(Side(name), p) /\ Get(Side(name), p) = D(ups[i][2])
                        ELSE ~Has(Side(name), p)

\* C4 witness: a delta carried two updates of one bid price with different
\* quantities, and the book holds the second.
SecondUpdateOfPriceStored ==
    /\ call.op = "apply_books"
    /\ LET ups == Updates(call.blocks, "bids")
       IN  \E i, j \in 1 .. Len(ups) :
              /\ i < j
              /\ HasBothFields(ups[i]) /\ HasBothFields(ups[j])
              /\ D(ups[i][1]) = D(ups[j][1])
              /\ D(ups[i][2]) # 0 /\ D(ups[j][2]) # 0
              /\ D(ups[i][2]) # D(ups[j][2])
              /\ Get(bids, D(ups[j][1])) = D(ups[j][2])

\* A level that is malformed: a field is missing, or its price or its
\* quantity is no decimal.
Malformed(it) ==
    \/ ~HasBothFields(it)
    \/ ~IsDecimal(it[1])
    \/ ~IsDecimal(it[2])

RECURSIVE WellFormedOnly(_)
WellFormedOnly(its) ==
    IF its = << >> THEN << >>
    ELSE (IF Malformed(Head(its)) THEN << >> ELSE <<Head(its)>>)
         \o WellFormedOnly(Tail(its))

\* C5: a delta skips each malformed level, leaving the book as it is for
\* that level, and applies the others: each side ends as the well-formed
\* updates alone would leave it.
\* (Violated: a quantity that is no decimal is read as 0 and removes the
\* level.)
MalformedLevelSkipped ==
    call.op = "apply_books" =>
        \A name \in SideNames :
            Side(name) = ApplyLevels(PreSide(name),
                                     WellFormedOnly(Updates(call.blocks, name)))

\* C6: a delta without levels that follows a bootstrap leaves both sides
\* as the bootstrap left them.
EmptyDeltaKeepsSnapshot ==
    [][(/\ call.op = "init_snapshot_and_price"
        /\ call'.op = "apply_books"
        /\ call'.levels = 0)
       => (bids' = bids /\ asks' = asks)]_vars

\* C6 witness: a delta without levels ran right after a bootstrap that
\* had loaded a bid.
EmptyDeltaAfterSnapshot ==
    /\ call.op = "apply_books"
    /\ call.levels = 0
    /\ call.after = "init_snapshot_and_price"
    /\ bids # << >>

\* The levels of d that sel leaves out.
Unselected(d, sel) ==
    {i \in 1 .. Len(d) : \A j \in 1 .. Len(sel) : sel[j].p # d[i].p}

\* sel is a selection of at most n levels of d by quantity: levels of d,
\* each once, the larger quantity first, none smaller than a level left
\* out.
IsTopSelection(sel, d, n) ==
    /\ Len(sel) <= n
    /\ \A j \in 1 .. Len(sel) :
          \E i \in 1 .. Len(d) : d[i] = sel[j]
    /\ \A i, j \in 1 .. Len(sel) : sel[i].p = sel[j].p => i = j
    /\ \A i, j \in 1 .. Len(sel) : i < j => sel[i].q >= sel[j].q
    /\ \A j \in 1 .. Len(sel) : \A i \in Unselected(d, sel) :
          sel[j].q >= d[i].q

\* C7: the top-N levels of the snapshot rows and the top-K levels of
\* support/resistance are, on each side, at most N (K) levels in
\* non-increasing order of quantity, none smaller than an unselected one.
TopSelectionByQuantity ==
    /\ call.op = "build_dataframe" =>
          /\ IsTopSelection(call.top_bids, bids, call.TOP_N)
          /\ IsTopSelection(call.top_asks, asks, call.TOP_N)
    /\ call.op = "get_support_resistance" =>
          /\ IsTopSelection(call.supports, bids, call.count)
          /\ IsTopSelection(call.resistances, asks, call.count)

\* C7 witness: a snapshot of the top 2 of three bids that left out a bid
\* smaller than one selected and kept two of equal quantity.
TopTwoOfThreeSelected ==
    /\ call.op = "build_dataframe"
    /\ call.TOP_N = 2
    /\ Len(bids) = 3
    /\ Len(call.top_bids) = 2
    /\ \E i \in Unselected(bids, call.top_bids) :
          bids[i].q < call.top_bids[1].q
    /\ \E i, j \in 1 .. Len(bids) : i # j /\ bids[i].q = bids[j].q

Dist(cur, p) == Abs(DecimalOf(cur) - p)

\* The rows (0-based) whose price cell of one side carries the star.
MarkedRows(rows, col, top) ==
    {i \in 0 .. (Len(top) - 1) :
        rows[i + 1][col] = fmt_decimal(top[i + 1].p, PRICE_DIGITS) \o " " \o STAR}

\* The marking of one side: at most one row; none without a price or
\* without rows; a marked row is the first of those nearest to the price,
\* and one is marked whenever the price is a number and there are rows.
IsNearestMarking(marked, top, cur) ==
    /\ Cardinality(marked) <= 1
    /\ (cur = "" \/ top = << >>) => marked = {}
    /\ \A i \in marked :
          /\ IsDecimal(cur)
          /\ \A j \in 1 .. Len(top) : Dist(cur, top[i + 1].p) <= Dist(cur, top[j].p)
          /\ \A j \in 1 .. i : Dist(cur, top[j].p) > Dist(cur, top[i + 1].p)
    /\ (IsDecimal(cur) /\ top # << >>) => marked # {}

\* The text of self.last_price_str that build_dataframe's cur_price came
\* from ("N/A" stands for the empty text).
PriceRead(cur_price) == IF cur_price = "N/A" THEN "" ELSE cur_price

\* The direction marker of the current price cur and the previous price
\* prev, as texts: FLAT unless both are set, parse and differ as numbers.
Direction(cur, prev) ==
    IF prev # "" /\ cur # "" /\ IsDecimal(prev) /\ IsDecimal(cur)
    THEN PriceIcon(DecimalOf(cur), DecimalOf(prev))
    ELSE "FLAT"

\* C8: in the selected rows of each side the marked row is the lowest
\* index whose price is nearest to the current price (the one read with
\* the levels); no row is marked without a current price or without rows;
\* at most one row is marked.
NearestRowMarked ==
    call.op = "build_dataframe" =>
        /\ IsNearestMarking(MarkedRows(call.df.rows, "BUY_PRICE", call.top_bids),
                            call.top_bids, PriceRead(call.cur_price))
        /\ IsNearestMarking(MarkedRows(call.df.rows, "SELL_PRICE", call.top_asks),
                            call.top_asks, PriceRead(call.cur_price))

\* C8 witness: two selected bids are equally near to the price, nearer
\* than any other, and the first of them carries the star.
FirstOfTwoNearestMarked ==
    /\ call.op = "build_dataframe"
    /\ IsDecimal(PriceRead(call.cur_price))
    /\ LET top == call.top_bids
           cur == PriceRead(call.cur_price)
           marked == MarkedRows(call.df.rows, "BUY_PRICE", top)
       IN  \E i, j \in 1 .. Len(top) :
              /\ i < j
              /\ Dist(cur, top[i].p) = Dist(cur, top[j].p)
              /\ \A k \in 1 .. Len(top) :
                    Dist(cur, top[k].p) >= Dist(cur, top[i].p)
              /\ marked = {i - 1}

\* C9: the imbalance get_metrics reports lies in [0, 1].
\* (Violated: a negative quantity, which a delta stores, makes the ratio
\* negative or larger than 1.)
ImbalanceInUnitInterval ==
    call.op = "get_metrics" =>
        LET r == call.result.imbalance
        IN  r.den > 0 /\ 0 <= r.num /\ r.num <= r.den

\* C10: the imbalance is exactly 0.5 when both sides are empty, and
\* otherwise total bid quantity / (total bid quantity + total ask
\* quantity).
\* (Violated: a book whose quantities sum to 0 or less is reported as
\* 0.5 although it is not empty.)
ImbalanceNeutralOnlyWhenEmpty ==
    call.op = "get_metrics" =>
        LET r == call.result.imbalance
            buy == SumQty(bids)
            sell == SumQty(asks)
        IN  IF bids = << >> /\ asks = << >>
            THEN r.num * 2 = r.den
            ELSE /\ buy + sell # 0
                 /\ r.num * (buy + sell) = buy * r.den

\* k is the smallest (the largest) key of the dict d.
IsMinKey(d, k) == Has(d, k) /\ \A j \in Keys(d) : k <= j
IsMaxKey(d, k) == Has(d, k) /\ \A j \in Keys(d) : k >= j

\* C11: get_metrics reports the spread 0 when a side is empty, and the
\* minimum ask price minus the maximum bid price when neither is.
\* (Violated: the code tests best_bid > 0 and best_ask > 0 instead of the
\* sides being non-empty, so a level stored at price 0 gives the spread 0.)
SpreadOfBestPrices ==
    call.op = "get_metrics" =>
        IF bids = << >> \/ asks = << >>
        THEN call.result.spread = 0
        ELSE \E a \in Keys(asks), b \in Keys(bids) :
                /\ IsMinKey(asks, a)
                /\ IsMaxKey(bids, b)
                /\ call.result.spread = a - b

\* The sum of price * quantity over the levels of d at the positions I.
RECURSIVE ValueOver(_, _)
ValueOver(d, I) ==
    IF I = {} THEN 0
    ELSE LET i == CHOOSE j \in I : TRUE
         IN  d[i].p * d[i].q + ValueOver(d, I \ {i})

\* C12: get_total_values returns, per side, the sum of price * quantity
\* over every level of the book, whatever number of rows is shown.
TotalsOverFullBook ==
    call.op = "get_total_values" =>
        /\ call.result[1] = ValueOver(bids, 1 .. Len(bids))
        /\ call.result[2] = ValueOver(asks, 1 .. Len(asks))

\* C12 witness: totals were read from a book with more bids than any
\* TOP_N shows, and the bid total is that of all of them.
TotalsOfMoreThanTopN ==
    /\ call.op = "get_total_values"
    /\ Len(bids) > MaxTop
    /\ \A i \in 1 .. Len(bids) : bids[i].q > 0
    /\ call.result[1] = ValueOver(bids, 1 .. Len(bids))
    /\ call.result[1] > ValueOver(bids, 1 .. MaxTop)

\* C13: on every path that sets the price (bootstrap, stream, poll) the
\* previous price is overwritten only in a step where the current price
\* changes to a different value, so the two are never equal while both
\* are set.
\* The two assignments of the bootstrap's lock block (lines 151, 152) are
\* one change: at the first, previous is overwritten, and the current
\* price the block goes on to store (main.p, with the lock held) has to
\* differ from the one it replaces; the state between the two, which no
\* reader sees, is not held against the code.
\* (Violated: the bootstrap shifts current to previous without comparing,
\* so a bootstrap that observes the current price again makes them equal.)
PreviousOnlyOnChange ==
    [][/\ IF main.pc = "boot_ticker_locked" /\ main'.pc = "boot_set_last"
          THEN prev_price_str' # prev_price_str
                   => main.p[1] # last_price_str
          ELSE prev_price_str' # prev_price_str
                   => last_price_str' # last_price_str
       /\ (main'.pc # "boot_set_last"
              /\ last_price_str' # "" /\ prev_price_str' # "")
              => last_price_str' # prev_price_str']_vars

\* C14: the direction marker build_dataframe computes is UP when current >
\* previous as numbers, DOWN when current < previous, FLAT when they are
\* equal as numbers or when either is absent (current and previous as the
\* statements that compute the marker read them, one after the other), and
\* the marker returned is the one computed.
DirectionByNumber ==
    [][/\ (main.pc = "build_rows" /\ main'.pc # "build_rows") =>
            /\ main'.df.price_icon = "FLAT"
            /\ main'.pc = "build_attrs" <=> prev_price_str = ""
       /\ (main.pc = "build_test_last" /\ main'.pc # "build_test_last") =>
            (main'.pc = "build_attrs" <=> last_price_str = "")
       /\ (main.pc = "build_test_prev" /\ main'.pc # "build_test_prev") =>
            (main'.pc = "build_attrs" <=> prev_price_str = "")
       /\ (main.pc = "build_pprev" /\ main'.pc # "build_pprev"
            /\ prev_price_str = "") => main'.pc = "build_attrs"
       /\ (main.pc \in {"build_test_last", "build_test_prev", "build_pprev"}
            /\ main'.pc = "build_attrs") => main'.df.price_icon = "FLAT"
       /\ (main.pc = "build_pcur" /\ main'.pc # "build_pcur"
            /\ last_price_str = "") => main'.df.price_icon = "FLAT"
       /\ (main.pc = "build_pcur" /\ main'.pc # "build_pcur"
            /\ IsDecimal(last_price_str)) =>
            LET icon == main'.df.price_icon
                cur == D(last_price_str)
                prev == main.pprev
            IN  /\ cur > prev => icon = "UP"
                /\ cur < prev => icon = "DOWN"
                /\ cur = prev => icon = "FLAT"
       /\ (main.pc = "build_attrs" /\ main'.pc # "build_attrs") =>
            call'.df.price_icon = main.df.price_icon]_vars

\* C14 witness: the price moved from 1 to 2, previous is 1, and the
\* snapshot built then carries the price 2 and UP.
MoveUpMarkedUp ==
    /\ call.op = "build_dataframe"
    /\ prev_price_str = "1"
    /\ last_price_str = "2"
    /\ call.cur_price = "2"
    /\ call.df.current_price = "2"
    /\ call.df.price_icon = "UP"

\* The prices of the trades a message carries.
TradePrices(msg) ==
    {msg.data[i].price : i \in {j \in 1 .. Len(msg.data) : TradeShaped(msg.data[j])}}

\* C15: after a data message that carries trades (entries with a price
\* field), the current price is a price of that batch (the latest).
\* (Violated: _on_message calls apply_trades, which is commented out, so
\* the call raises and the price stays as it was.)
TradeSetsCurrentPrice ==
    (/\ call.op = "_on_message"
     /\ IsDataMessage(call.msg)
     /\ TradePrices(call.msg) # {})
        => last_price_str \in TradePrices(call.msg)

\* Two ratios are the same number.
SameRatio(a, b) == a.num * b.den = b.num * a.den

RECURSIVE Power(_, _)
Power(b, n) == IF n = 0 THEN 1 ELSE b * Power(b, n - 1)

\* min(10, 1.5^(k-1)), for k >= 1.
DelayOfFailure(k) ==
    IF Power(3, k - 1) >= 10 * Power(2, k - 1)
    THEN Ratio(10, 1)
    ELSE Ratio(Power(3, k - 1), Power(2, k - 1))

\* C16: the reconnect delay after the k-th consecutive failure of the
\* stream, with no subscription in between, is min(10, 1.5^(k-1)).
\* (Violated, by the bug of C17: the backoff is never reset, so a failure
\* that follows a subscription continues the earlier sequence.)
DelayOfConsecutiveFailures ==
    \A r \in 1 .. MaxRuns :
        sup[r].pc = "sleep_backoff"
            => SameRatio(sup[r].delay, DelayOfFailure(sup[r].fails))

\* C17: once the stream has subscribed, the backoff is back at 1: the
\* first failure after a subscription is followed by a delay of 1.
\* (Violated: _ws_runloop sets backoff = 1.0 once, before the loop.)
DelayResetBySubscription ==
    \A r \in 1 .. MaxRuns :
        (sup[r].pc = "sleep_backoff" /\ sup[r].fails = 1)
            => SameRatio(sup[r].delay, Ratio(1, 1))

\* C18: when run_forever returns without raising and the stop signal is
\* not set, the supervisor sleeps 0.5, goes back to the loop test and
\* connects again, and the backoff keeps its value throughout.
CleanCloseKeepsBackoff ==
    [][\A r \in 1 .. MaxRuns :
          /\ (sup[r].pc \in {"connecting", "connected"} /\ sup'[r].pc = "else")
                => sup'[r].backoff = sup[r].backoff
          /\ (sup[r].pc = "else" /\ ~stop_event /\ sup'[r] # sup[r])
                => /\ sup'[r].pc = "sleep_pause"
                   /\ SameRatio(sup'[r].delay, Ratio(1, 2))
                   /\ sup'[r].backoff = sup[r].backoff
          /\ (sup[r].pc = "sleep_pause" /\ sup'[r] # sup[r])
                => /\ sup'[r].pc = "while"
                   /\ sup'[r].backoff = sup[r].backoff
          /\ (sup[r].pc = "while" /\ ~stop_event /\ sup'[r] # sup[r])
                => /\ sup'[r].pc = "create"
                   /\ sup'[r].backoff = sup[r].backoff]_vars

\* C18 witness: a supervisor sleeps 0.5 after a clean return, with the
\* backoff 1.5 that an earlier failure left.
PauseAfterCleanClose ==
    \E r \in 1 .. MaxRuns :
        /\ sup[r].pc = "sleep_pause"
        /\ ~stop_event
        /\ sup[r].fails = 0
        /\ sup[r].backoff = Ratio(3, 2)

\* C19: from the moment stop() sets the stop signal until start() clears
\* it, no supervisor opens a connection, and the statement of stop() that
\* closes the connection leaves no connection open.
\* (Violated: a supervisor that passed the loop test before stop() makes
\* and runs a new WebSocketApp after the signal is set, also after stop()
\* has closed the app it found.)
NoConnectionAfterStop ==
    [][/\ stop_event =>
            \A r \in 1 .. MaxRuns :
                ~(sup[r].conn # "open" /\ sup'[r].conn = "open")
       /\ (main.pc = "stop_close" /\ main'.pc # "stop_close") =>
            \A r \in 1 .. MaxRuns : sup'[r].conn # "open"]_vars

\* C20: stop() when not running, and so a stop() that follows a stop(),
\* returns at its first test and changes nothing: not the stop signal,
\* the running flag, the book, the prices, nor the threads and the
\* connection.
StopIdempotent ==
    [][(/\ main.op = "stop"
        /\ main.pc = "stop"
        /\ main' # main
        /\ (~running \/ call.op = "stop"))
       => /\ main'.pc = "idle"
          /\ "stop" \in call'.noop
          /\ UNCHANGED <<bids, asks, last_price_str, prev_price_str,
                         last_update_time, running, stop_event, ws_app, apps,
                         runs, sup, symbol, top_n, latest_df, lock,
                         launched, tick, upd>>]_vars

\* C20 witness: stop() was called after a stop() that had stopped a run
\* (the signal it set is still set), found the manager not running and
\* has returned.
SecondStopFoundStopped ==
    /\ main.pc = "idle"
    /\ call.op = "stop"
    /\ "stop" \in call.noop
    /\ stop_event
    /\ ~running
    /\ runs > 0

\* The last n launches.
LastLaunches(l, n) == SubSeq(l, Len(l) - n + 1, Len(l))

\* The three launches of run r, in the order of start().
LaunchesOf(r) == <<Launch("ws", r), Launch("ticker", r), Launch("updater", r)>>

\* What start() may change beside the caller's own position.
OutsideCaller ==
    <<bids, asks, last_price_str, prev_price_str, last_update_time, running,
      stop_event, ws_app, apps, runs, sup, symbol, top_n, latest_df, lock,
      launched, tick, upd>>

\* C21: start() on a running manager returns at its first test, launching
\* no loop and changing no state.  Otherwise it makes the bootstrap's
\* requests only with the stop signal cleared, launches a loop only once
\* the bootstrap has made both its requests and released the lock, and
\* sets running only when the three loops of the run have been launched.
StartInOrder ==
    [][/\ (main.pc = "start" /\ running)
            => (main'.pc = "idle" /\ UNCHANGED OutsideCaller)
       /\ (main.pc = "start" /\ ~running)
            => (main'.pc = "start_clear" /\ UNCHANGED OutsideCaller)
       /\ main'.requests > main.requests => ~stop_event
       /\ launched' # launched
            => /\ ~stop_event
               /\ main.requests = 2
               /\ lock = Free
               /\ ~running
       /\ (~running /\ running')
            => /\ Len(launched) >= 3
               /\ LastLaunches(launched, 3) = LaunchesOf(runs)
               /\ \A r \in 1 .. MaxRuns :
                      r = runs => /\ sup[r].pc # "none"
                                  /\ tick[r].pc # "none"
                                  /\ upd[r].pc # "none"]_vars

\* A second start() has returned from a manager that a first start() had
\* set running with its three loops.
StartedTwice ==
    /\ main.pc = "idle"
    /\ call.op = "start"
    /\ "start" \in call.noop
    /\ running
    /\ launched = LaunchesOf(1)

\* The restart() in progress (m is main) or just returned (m is call) has
\* stored the parameters it was given that are true.
TrueArgsStored(m) ==
    /\ TruthyText(m.symbol) => symbol = m.symbol[1]
    /\ TruthyNumber(m.top_n) => top_n = m.top_n[1]

\* The caller is in restart(), past the launch of the stream supervisor,
\* or restart() was the last call and has returned.
InNewRun ==
    \/ main.op = "restart"
       /\ main.pc \in {"launch_ticker", "launch_updater", "set_running"}
    \/ main.pc = "idle" /\ call.op = "restart"

\* C22 as stated: when restart() returns, symbol and top-N equal the values
\* it was given, whatever they are.
RestartStoresGivenValues ==
    (main.pc = "idle" /\ call.op = "restart")
        => /\ call.symbol # << >> => symbol = call.symbol[1]
           /\ call.top_n # << >> => top_n = call.top_n[1]

\* C22 (amended): restart() changes symbol and top-N only after stop() has
\* left the manager stopped, to the values given that are true (a None, ""
\* or 0 leaves the setting as it was); it clears the book with the settings
\* already stored, and start() begins on the cleared book.  When it returns
\* running is true, the settings hold the true values given, both requests
\* of the bootstrap were made for the stored symbol, and the subscription
\* the supervisor of the new run sends in _on_open is for the symbol its
\* bootstrap was made for, which is the symbol given when that is true.
RestartInOrder ==
    [][/\ (symbol' # symbol \/ top_n' # top_n)
            => (main.op = "restart" /\ ~running)
       /\ (main.op = "restart" /\ ~TruthyText(main.symbol))
            => symbol' = symbol
       /\ (main.op = "restart" /\ ~TruthyNumber(main.top_n))
            => top_n' = top_n
       /\ (main.pc = "clear_locked" /\ main'.pc # "clear_locked")
            => (~running /\ TrueArgsStored(main)
                /\ bids' = << >> /\ asks' = << >>)
       /\ (stop_event /\ ~stop_event')
            => (bids = << >> /\ asks = << >> /\ TrueArgsStored(main))
       /\ (main'.pc = "idle" /\ main.pc # "idle")
            => /\ running'
               /\ TrueArgsStored(main)
               /\ symbol' = symbol /\ top_n' = top_n
               /\ call'.requests = 2
               /\ call'.sym = symbol
       /\ \A r \in 1 .. MaxRuns :
              (r = runs /\ InNewRun /\ sup'[r].sub \notin {"", sup[r].sub})
              => LET m == IF main.pc = "idle" THEN call ELSE main
                 IN  /\ sup[r].pc = "on_open"
                     /\ sup'[r].conn = "open"
                     /\ sup'[r].sub = m.sym
                     /\ TruthyText(m.symbol) => sup'[r].sub = m.symbol[1]
                     /\ TrueArgsStored(m)
      ]_vars

\* A running manager was restarted with a new symbol and a new top-N, and
\* the supervisor of the second run has subscribed.
RestartedWithNewSettings ==
    /\ main.pc = "idle"
    /\ call.op = "restart"
    /\ call.symbol = <<"ETHUSDT">>
    /\ call.top_n = <<MaxTop>>
    /\ call.noop = {}
    /\ runs = 2
    /\ call.sym = "ETHUSDT"
    /\ sup[2].pc = "connected"
    /\ sup[2].app # NoApp
    /\ sup[2].conn = "open"
    /\ sup[2].sub = "ETHUSDT"

\* C23: _clear_books() leaves both sides empty and changes neither the
\* running flag, the stop signal, the two prices, symbol nor top-N.
ClearTouchesOnlyBook ==
    [][main.pc \in {"clear", "clear_locked"}
        => /\ UNCHANGED <<running, stop_event, last_price_str,
                          prev_price_str, symbol, top_n>>
           /\ main'.pc # "clear_locked" => (bids' = << >> /\ asks' = << >>)
      ]_vars

\* _clear_books(), called by the user on a running manager with a loaded
\* book and a price, has returned.
ClearedWhileRunning ==
    /\ main.pc = "idle"
    /\ call.op = "_clear_books"
    /\ call.levels > 0
    /\ running
    /\ ~stop_event
    /\ last_price_str # ""
    /\ bids = << >>
    /\ asks = << >>

\* The prices a call's bootstrap got from its ticker request.
PricesSeen(c) == {c.p[i] : i \in 1 .. Len(c.p)}

\* C24: when restart() has returned, each of the two prices is empty or a
\* price the new run's bootstrap observed.
RestartResetsPrices ==
    (main.pc = "idle" /\ call.op = "restart")
        => /\ last_price_str \in {""} \cup PricesSeen(call)
           /\ prev_price_str \in {""} \cup PricesSeen(call)

\* C25: when the bootstrap of a start() ends, a failed order-book request
\* has left both sides empty and a failed ticker request both prices empty.
FailedBootstrapLeavesEmpty ==
    (main.pc = "launch_ws" /\ main.requests = 2)
        => /\ main.ob.kind = "raise" => (bids = << >> /\ asks = << >>)
           /\ main.p = << >> => (last_price_str = "" /\ prev_price_str = "")

\* A DataFrame as __init__ makes it, or one whose rows and both attrs have
\* been set (pd.DataFrame(rows_list) starts every tick's with no attrs).
Whole(df) == df = EmptyDf \/ (df.current_price # "" /\ df.price_icon # "")

\* C26: the published snapshot changes only in the lock block of an
\* updater, to the DataFrame that updater's tick has built in full; a read
\* of latest_df returns the snapshot published at that moment, whole,
\* whatever the loops are in the middle of.
ReadsSeeWholeSnapshots ==
    [][/\ latest_df' # latest_df
            => \E r \in 1 .. MaxRuns :
                   /\ upd[r].pc = "publish_locked"
                   /\ lock = Holder("updater", r)
                   /\ latest_df' = upd[r].df
       /\ Whole(latest_df')
       /\ (call' # call /\ call'.op = "latest_df")
            => /\ call'.df = latest_df
               /\ latest_df' = latest_df
               /\ Whole(call'.df)
      ]_vars

\* The user holds a snapshot read while the updater was building the next
\* one, which has replaced it since.
ReadBeforeReplacement ==
    /\ call.op = "latest_df"
    /\ call.df # EmptyDf
    /\ latest_df # call.df
    /\ latest_df.rows # call.df.rows

\* C27: the DataFrame a tick returns records as current price the price
\* read under the lock with the levels (the one the nearest rows are
\* marked by), and its direction marker compares the two prices of that
\* same read.
BuiltFromOneRead ==
    [][\A r \in 1 .. MaxRuns :
           (upd[r].pc = "build_attrs" /\ upd'[r].pc = "equals")
           => /\ upd'[r].df.current_price = upd[r].cur_price
              /\ upd'[r].df.price_icon =
                     Direction(PriceRead(upd[r].cur_price), upd[r].prev_price)
      ]_vars

\* C28: a tick publishes exactly when it is the first of its run or its
\* rows differ from those of the tick before (the rows last_snapshot holds
\* whenever a tick has ended); publishing replaces the snapshot by the
\* tick's DataFrame, and nothing else changes the published snapshot.
PublishIffRowsDiffer ==
    [][/\ \A r \in 1 .. MaxRuns :
            /\ (upd[r].pc = "equals" /\ upd'[r].pc \in {"publish", "sleep"})
                 => (upd'[r].pc = "publish"
                       <=> \/ upd[r].last_snapshot = << >>
                           \/ upd[r].df.rows # upd[r].last_snapshot[1].rows)
            /\ (upd[r].pc = "publish_locked" /\ upd'[r].pc # "publish_locked")
                 => (latest_df' = upd[r].df
                     /\ upd'[r].last_snapshot = <<upd[r].df>>)
            /\ upd'[r].pc = "sleep"
                 => (upd'[r].last_snapshot # << >>
                     /\ upd'[r].last_snapshot[1].rows = upd'[r].df.rows)
       /\ latest_df' # latest_df
            => \E r \in 1 .. MaxRuns : upd[r].pc = "publish_locked"
      ]_vars

\* A tick has ended without publishing: its rows are those of the
\* published snapshot, its attrs are not.
SameRowsNotPublished ==
    /\ upd[1].pc = "sleep"
    /\ upd[1].last_snapshot = <<latest_df>>
    /\ upd[1].df.rows = latest_df.rows
    /\ upd[1].df # latest_df


\* C29: the lock is held only around reads and writes of the shared state,
\* never across a network request or a sleep.  Whoever holds the lock is at
\* a statement inside a `with self.lock:` block (storing the book or the
\* price, merging a delta, comparing the price, copying the book and the
\* prices, publishing the snapshot); a thread that is inside a REST request, a join or a sleep
\* does not hold it.
LockOnlyAroundState ==
    /\ lock = Me =>
           main.pc \in {"boot_book_locked", "boot_ticker_locked",
                        "boot_set_last", "clear_locked"}
    /\ main.pc \in {"boot_get_book", "boot_get_ticker", "stop_join",
                    "restart_sleep"} => lock # Me
    /\ \A r \in 1..MaxRuns :
           /\ lock = Holder("ticker", r) =>
                  tick[r].pc \in {"compare", "set_last"}
           /\ tick[r].pc \in {"get", "sleep"} => lock # Holder("ticker", r)
           /\ lock = Holder("updater", r) =>
                  upd[r].pc \in {"build_locked", "publish_locked"}
           /\ upd[r].pc \in {"sleep", "sleep_error"} =>
                  lock # Holder("updater", r)
           /\ lock = Holder("ws", r) => sup[r].pc = "books_locked"
           /\ sup[r].pc \in {"connecting", "connected", "sleep_backoff",
                              "sleep_pause"} => lock # Holder("ws", r)

\* The updater holds the lock to publish while the poller is inside its
\* request and the stream is open.
PublishingWhilePollerRequests ==
    /\ lock = Holder("updater", 1)
    /\ upd[1].pc = "publish_locked"
    /\ tick[1].pc = "get"
    /\ sup[1].pc = "connected"


\* What the three loops share with the callers.
SharedState == <<book, ticker, last_update_time, symbol, top_n, latest_df,
                 running, stop_event>>

\* C30: none of the three loops exits while the stop signal is not set, and
\* a failure inside one iteration is caught, leaves the shared state as it
\* was, and the loop goes on: a loop reaches "exited" only in a step taken
\* with the stop signal set; run_forever raising leads the supervisor to
\* its except branch and from there, the signal clear, to the backoff sleep
\* and the next test; a failed or malformed ticker response leads the
\* poller to its sleep and the next test; a raise while the view is built
\* or compared leads the updater to its sleep of 1.0 and the next test; a
\* message that cannot be parsed or whose handling raises leaves the
\* connection open and the shared state as it was.
\* (Violated in its last part: of a message that carries levels on the
\* trades channel, or levels beside a trade key, _on_message merges the
\* levels by apply_books and only then raises in the call of apply_trades,
\* the bug of C15.)
LoopsSurviveFailures ==
    [][ /\ \A r \in 1 .. MaxRuns :
            /\ (sup[r].pc # "exited" /\ sup'[r].pc = "exited") => stop_event
            /\ (tick[r].pc # "exited" /\ tick'[r].pc = "exited") => stop_event
            /\ (upd[r].pc # "exited" /\ upd'[r].pc = "exited") => stop_event
            /\ (sup[r].pc # "except" /\ sup'[r].pc = "except") =>
                   UNCHANGED SharedState
            /\ (sup[r].pc = "except" /\ sup'[r] # sup[r] /\ ~stop_event) =>
                   sup'[r].pc = "sleep_backoff"
            /\ (sup[r].pc = "sleep_backoff" /\ sup'[r] # sup[r]) =>
                   sup'[r].pc = "while"
            /\ (tick[r].pc = "get" /\ tick'[r] # tick[r]
                    /\ tick'[r].p = << >>) =>
                   (tick'[r].pc = "sleep" /\ UNCHANGED SharedState)
            /\ (tick[r].pc = "sleep" /\ tick'[r] # tick[r] /\ ~stop_event) =>
                   tick'[r].pc = "while"
            /\ (upd[r].pc # "sleep_error" /\ upd'[r].pc = "sleep_error") =>
                   (UNCHANGED <<SharedState, lock>> /\ lock # Holder("updater", r))
            /\ (upd[r].pc = "sleep_error" /\ upd'[r] # upd[r]) =>
                   upd'[r].pc = "while"
            /\ (sup[r].pc = "books_locked" /\ sup'[r].pc # "books_locked"
                    /\ Raises(sup[r].msg[1])) =>
                   (sup'[r].pc = "connected" /\ UNCHANGED SharedState)
        /\ (call' # call /\ call'.op = "_on_message" /\ call'.done
                /\ (call'.raised \/ ~call'.json)) =>
               UNCHANGED <<SharedState, sup>>
      ]_vars


\* C32: after any sequence of start(), stop() and restart(), at most one
\* stream supervisor loop, one ticker poll loop and one updater loop are
\* alive at the same time, and at most one stream connection is open.
OneRunAlive ==
    /\ Cardinality({r \in 1 .. MaxRuns : Alive(sup[r].pc)}) <= 1
    /\ Cardinality({r \in 1 .. MaxRuns : Alive(tick[r].pc)}) <= 1
    /\ Cardinality({r \in 1 .. MaxRuns : Alive(upd[r].pc)}) <= 1
    /\ Cardinality({r \in 1 .. MaxRuns : sup[r].conn = "open"}) <= 1


\* C31: after stop() has raised the stop signal, each of the three loops
\* launched by the start() before it observes the signal and exits in the
\* end, also when start() is called again before the loop has reached its
\* next test of the signal.
StoppedLoopsExit ==
    \A r \in 1 .. MaxRuns :
        (stop_event /\ runs = r)
            ~> (~Alive(sup[r].pc) /\ ~Alive(tick[r].pc) /\ ~Alive(upd[r].pc))


\* restart("ETHUSDT") has stored the new symbol and cleared the book.
SwappedAndCleared ==
    /\ symbol = "ETHUSDT"
    /\ main.pc \notin {"restart_top_n", "clear", "clear_locked"}

\* C33: after restart() with a different symbol has cleared the book, no
\* price of a poll request made for the earlier symbol and no delta of a
\* connection subscribed for the earlier symbol is merged into the state:
\* a step of a poller that writes the prices belongs to a request for
\* self.symbol, and a delta is merged only when the connection that
\* delivered it is subscribed for self.symbol.
OnlyNewInstrumentMerged ==
    [][ SwappedAndCleared =>
          /\ \A r \in 1 .. MaxRuns :
                 (tick'[r] # tick[r] /\ ticker' # ticker) =>
                     tick[r].sym = symbol
          /\ \A r \in 1 .. MaxRuns :
                 (sup[r].pc = "books_locked" /\ sup'[r].pc # "books_locked") =>
                     sup[r].sub = symbol
      ]_vars


\* C34: while the updater loop keeps running, if the current price changes
\* and then stays as it is, the published snapshot's current price and
\* price icon are in the end those of the prices held, also when the rows
\* are the same as before the change: whenever the prices stay (p, q) from
\* some point on with the updater alive, a snapshot with current_price p
\* and the icon of (p, q) is published.
PublishedPriceCatchesUp ==
    \A p \in {"1", "2"}, q \in {"", "1", "2"} :
        <>[](/\ Alive(upd[1].pc)
             /\ last_price_str = p
             /\ prev_price_str = q)
            => <>(/\ latest_df.current_price = p
                  /\ latest_df.price_icon = Direction(p, q))

====
